---- MODULE Spec2Model ----
(***************************************************************************)
(* Verification model of parts of qserv:                                   *)
(*   - replica_core::Request / ServiceManagementRequestBase: the life      *)
(*     cycle of a controller-side request (start, cancel, expiration,      *)
(*     restart and the asynchronous network handlers);                     *)
(*   - replica::DatabaseServicesMySQL: saveReplicaInfoCollection;          *)
(*   - xrdsvc::SsiRequest: execute() and Finished() on the worker;         *)
(*   - qdisp::QueryRequest: the response handlers of a chunk request;      *)
(*   - replica_core::JobScheduler: run(), stop(), the scheduler thread and *)
(*     the exclusive multi-master lock;                                    *)
(*   - replica::ControlThread: launch() and track();                       *)
(*   - replica::ReplicateJob: the replication plan and its child jobs;     *)
(*   - replica::database::mysql::Connection: execute(script, ...).         *)
(* Each part has its own specification; the variables of the other parts   *)
(* stay at their initial values.                                           *)
(***************************************************************************)
EXTENDS Integers, Sequences, FiniteSets, TLC

VARIABLES req, rLast, replicaTable, dbLast, ssi, qr,
          sched, schedLast, ct, rj, conn, cref, bt, scan, lsn, reg, tx

varsRequest == <<req, rLast>>

varsDb == <<replicaTable, dbLast>>

varsSsi == <<ssi>>

varsQuery == <<qr>>

varsScheduler == <<sched, schedLast>>

varsControlThread == <<ct>>

varsReplicate == <<rj>>

varsConnection == <<conn>>

varsColumnRef == <<cref>>

varsBoolTerm == <<bt>>

varsScanTable == <<scan>>

varsListener == <<lsn>>

varsRegistry == <<reg>>

varsTransaction == <<tx>>

varsAnalysis ==
    <<varsColumnRef, varsBoolTerm, varsScanTable, varsListener,
      varsRegistry, varsTransaction>>

varsController == <<varsScheduler, varsControlThread, varsReplicate, varsConnection>>

varsDispatch == <<varsRequest, varsDb, varsSsi, varsQuery>>

vars == <<req, rLast, replicaTable, dbLast, ssi, qr, sched, schedLast, ct, rj, conn,
          cref, bt, scan, lsn, reg, tx>>

\* what the actions of one part leave alone
othersRequest == <<varsDb, varsSsi, varsQuery, varsController, varsAnalysis>>

othersDb == <<varsRequest, varsSsi, varsQuery, varsController, varsAnalysis>>

othersSsi == <<varsRequest, varsDb, varsQuery, varsController, varsAnalysis>>

othersQuery == <<varsRequest, varsDb, varsSsi, varsController, varsAnalysis>>

othersScheduler == <<varsDispatch, varsControlThread, varsReplicate, varsConnection, varsAnalysis>>

othersControlThread == <<varsDispatch, varsScheduler, varsReplicate, varsConnection, varsAnalysis>>

othersReplicate == <<varsDispatch, varsScheduler, varsControlThread, varsConnection, varsAnalysis>>

othersColumnRef ==
    <<varsDispatch, varsController, varsBoolTerm, varsScanTable, varsListener,
      varsRegistry, varsTransaction>>

othersBoolTerm ==
    <<varsDispatch, varsController, varsColumnRef, varsScanTable, varsListener,
      varsRegistry, varsTransaction>>

othersScanTable ==
    <<varsDispatch, varsController, varsColumnRef, varsBoolTerm, varsListener,
      varsRegistry, varsTransaction>>

othersListener ==
    <<varsDispatch, varsController, varsColumnRef, varsBoolTerm, varsScanTable,
      varsRegistry, varsTransaction>>

othersRegistry ==
    <<varsDispatch, varsController, varsColumnRef, varsBoolTerm, varsScanTable,
      varsListener, varsTransaction>>

othersTransaction ==
    <<varsDispatch, varsController, varsColumnRef, varsBoolTerm, varsScanTable,
      varsListener, varsRegistry>>

othersConnection == <<varsDispatch, varsScheduler, varsControlThread, varsReplicate, varsAnalysis>>

(***************************************************************************)
(* Bounds of the model.                                                    *)
(***************************************************************************)
MaxRestarts == 2
MaxCancels == 2
MaxThrown == 1
MaxColl == 2
MaxBlocks == 3
BufferSize == 2
MaxRuns == 2
MaxWakeUps == 1
MaxReplicas == 3
MaxLaunches == 2
MaxReconnects == 2
MaxElapsedSec == 2
MaxTerms == 2
MaxTableRefs == 2
MaxChunkCount == 3
MaxEvents == 8
MaxSubmitted == 2
MaxStatements == 9

\* the parts that a specification does not run stay as constructed
IdleSsiRequest == [pc |-> "idle"]

IdleQueryRequest == [pc |-> "idle"]

Chunks == {1, 2}

NoRow == <<>>

IdleReplicaTable == [c \in Chunks |-> NoRow]

NotCreated == [pc |-> "idle"]

IdleScheduler == sched = NotCreated /\ schedLast = NotCreated

IdleControlThread == ct = NotCreated

IdleReplicate == rj = NotCreated

IdleConnection == conn = NotCreated

IdleController ==
    IdleScheduler /\ IdleControlThread /\ IdleReplicate /\ IdleConnection

IdleColumnRef == cref = NotCreated

IdleBoolTerm == bt = NotCreated

IdleScanTable == scan = NotCreated

IdleListener == lsn = NotCreated

IdleRegistry == reg = NotCreated

IdleTransaction == tx = NotCreated

IdleAnalysis ==
    /\ IdleColumnRef /\ IdleBoolTerm /\ IdleScanTable /\ IdleListener
    /\ IdleRegistry /\ IdleTransaction

(***************************************************************************)
(* replica_core::Request                                                   *)
(*                                                                         *)
(* Asynchronous operations of boost::asio.  An operation that has been     *)
(* initiated is "waiting"; the environment completes it ("ok" or "err"),   *)
(* which queues its handler; cancel() of the owning I/O object turns the   *)
(* operations that are still waiting into handlers that will be called     *)
(* with operation_aborted, and leaves the handlers already queued alone.   *)
(***************************************************************************)
Handlers == {"resolved", "connected", "requestSent", "responseReceived", "expired"}

Statuses == {"waiting", "ok", "err", "aborted"}

NoPending == [h \in Handlers |-> [s \in Statuses |-> 0]]

\* initiate an asynchronous operation whose completion calls handler h
Post(p, h) == [p EXCEPT ![h]["waiting"] = @ + 1]

\* initiate an operation on the socket: on a closed socket it fails at once
PostOnSocket(r, h) ==
    IF r.socketOpen
    THEN [r EXCEPT !.pend = Post(@, h)]
    ELSE [r EXCEPT !.pend[h]["err"] = @ + 1]

\* cancel() of the I/O objects behind the handlers hs
Abort(p, hs) ==
    [h \in Handlers |->
        IF h \in hs
        THEN [p[h] EXCEPT !["aborted"] = @ + p[h]["waiting"], !["waiting"] = 0]
        ELSE p[h]]

\* the handler h, called with status s, leaves the queue
Take(r, h, s) == [r EXCEPT !.pend[h][s] = @ - 1]

\* _resolver.cancel(); _socket.cancel(); _socket.close(); _timer.cancel();
\* _requestExpirationTimer.cancel();
cancelAsync(r) == [r EXCEPT !.pend = Abort(@, Handlers), !.socketOpen = FALSE]

setState(r, state, extendedState) ==
    [r EXCEPT !.state = state, !.extendedState = extendedState]

\* the subclass's endProtocol() invokes the callback given to the request
endProtocol(r) == [r EXCEPT !.numCallbacks = @ + 1]

finish_noCheck(r, extendedState) ==
    LET r1 == setState(r, "FINISHED", extendedState)
        r2 == IF r.state = "IN_PROGRESS" THEN cancelAsync(r1) ELSE r1
    IN  endProtocol(r2)

finish(r, extendedState) ==
    IF r.state = "FINISHED"
    THEN r
    ELSE LET r1 == setState(r, "FINISHED", extendedState)
             r2 == IF r.state = "IN_PROGRESS" THEN cancelAsync(r1) ELSE r1
         IN  endProtocol(r2)

cancel(r) == finish(r, "CANCELLED")

isAborted(ec) == ec = "aborted"

expired_asCancelled(r, ec) ==
    IF ec = "aborted" THEN r
    ELSE IF r.state = "FINISHED" THEN r
    ELSE finish(r, "CANCELLED")

expired(r, ec) ==
    IF ec = "aborted" THEN r
    ELSE IF r.state = "FINISHED" THEN r
    ELSE finish(r, "EXPIRED")

resolve(r) == setState([r EXCEPT !.pend = Post(@, "resolved")], "IN_PROGRESS", "NONE")

restart(r) ==
    LET r1 == IF r.state = "IN_PROGRESS" THEN cancelAsync(r) ELSE r
        r2 == setState(r1, "CREATED", "NONE")
    IN  resolve([r2 EXCEPT !.numRestarts = @ + 1])

\* assertState(CREATED) throws std::logic_error to the caller in any other state
start(r) ==
    IF r.state # "CREATED"
    THEN r
    ELSE LET r1 == IF r.requestExpirationIvalSec # 0
                   THEN [r EXCEPT !.pend = Post(Abort(@, {"expired"}), "expired")]
                   ELSE r
         IN  resolve(r1)

connect(r) == [r EXCEPT !.pend = Post(@, "connected")]

beginProtocol(r) == PostOnSocket(r, "requestSent")

receiveResponse(r) == PostOnSocket(r, "responseReceived")

resolved(r, ec) ==
    IF isAborted(ec) THEN r
    ELSE IF ec = "err" THEN restart(r)
    ELSE connect(r)

connected(r, ec) ==
    IF isAborted(ec) THEN r
    ELSE IF ec = "err" THEN restart(r)
    ELSE beginProtocol(r)

requestSent(r, ec) ==
    IF isAborted(ec) THEN r
    ELSE IF ec = "err" THEN restart(r)
    ELSE receiveResponse(r)

(***************************************************************************)
(* The response of the worker as the synchronous reads find it: whether    *)
(* reading the header, the frame and the message fails, and the message.   *)
(***************************************************************************)
MessageStatuses == {"SUCCESS", "FAILED"}

ServiceStates == {"RUNNING", "UNKNOWN"}

Responses ==
    [hdrErr : BOOLEAN, frameErr : BOOLEAN, msgErr : BOOLEAN,
     status : MessageStatuses, service_state : ServiceStates]

\* ServiceState::set throws std::runtime_error on a state it does not know
analyze(r, message) ==
    IF message.status = "SUCCESS"
    THEN IF message.service_state = "UNKNOWN"
         THEN [r EXCEPT !.numThrown = @ + 1]
         ELSE finish(r, "SUCCESS")
    ELSE finish(r, "SERVER_ERROR")

\* a synchronous read on a socket that restart() has closed cannot succeed
responseReceived(r, ec, rd) ==
    IF isAborted(ec) THEN r
    ELSE IF ec = "err" THEN restart(r)
    ELSE LET r1 == IF rd.hdrErr \/ ~r.socketOpen THEN restart(r) ELSE r
             r2 == IF rd.frameErr \/ ~r1.socketOpen THEN restart(r1) ELSE r1
         IN  IF rd.msgErr \/ ~r2.socketOpen THEN restart(r2) ELSE analyze(r2, rd)

(***************************************************************************)
(* The request as a state machine.                                         *)
(***************************************************************************)
NewRequest(ival) ==
    [state |-> "CREATED", extendedState |-> "NONE",
     pend |-> NoPending, socketOpen |-> FALSE,
     requestExpirationIvalSec |-> ival, started |-> FALSE,
     numCallbacks |-> 0, numRestarts |-> 0, numCancels |-> 0, numThrown |-> 0]

\* what the last operation was, with the state it found
Did(op, ec) == [op |-> op, ec |-> ec, before |-> req.state]

Bounded(r) ==
    /\ r.numRestarts <= MaxRestarts
    /\ r.numThrown <= MaxThrown

IdleRequest ==
    /\ req = NewRequest(0)
    /\ rLast = [op |-> "none", ec |-> "none", before |-> "CREATED"]

InitRequest ==
    /\ \E ival \in {0, 1} : req = NewRequest(ival)
    /\ rLast = [op |-> "none", ec |-> "none", before |-> "CREATED"]
    /\ replicaTable = IdleReplicaTable
    /\ dbLast = [op |-> "none"]
    /\ ssi = IdleSsiRequest
    /\ qr = IdleQueryRequest
    /\ IdleController
    /\ IdleAnalysis

\* the owner of the request calls start() once
Start ==
    /\ ~req.started
    /\ req' = [start(req) EXCEPT !.started = TRUE]
    /\ rLast' = Did("start", "none")
    /\ UNCHANGED othersRequest

Cancel ==
    /\ req.numCancels < MaxCancels
    /\ req' = [cancel(req) EXCEPT !.numCancels = @ + 1]
    /\ rLast' = Did("cancel", "none")
    /\ UNCHANGED othersRequest

\* the environment completes an operation: its handler is queued
Complete ==
    \E h \in Handlers, s \in {"ok", "err"} :
        /\ req.pend[h]["waiting"] > 0
        /\ h = "expired" => s = "ok"
        /\ req' = [req EXCEPT !.pend[h]["waiting"] = @ - 1,
                              !.pend[h][s] = @ + 1,
                              !.socketOpen = IF h = "connected" /\ s = "ok"
                                             THEN TRUE ELSE @]
        /\ rLast' = Did("complete", s)
        /\ UNCHANGED othersRequest

OnExpired ==
    \E ec \in {"ok", "aborted"} :
        /\ req.pend["expired"][ec] > 0
        /\ req' = expired(Take(req, "expired", ec), ec)
        /\ rLast' = Did("expired", ec)
        /\ UNCHANGED othersRequest

OnResolved ==
    \E ec \in {"ok", "err", "aborted"} :
        /\ req.pend["resolved"][ec] > 0
        /\ Bounded(resolved(Take(req, "resolved", ec), ec))
        /\ req' = resolved(Take(req, "resolved", ec), ec)
        /\ rLast' = Did("resolved", ec)
        /\ UNCHANGED othersRequest

OnConnected ==
    \E ec \in {"ok", "err", "aborted"} :
        /\ req.pend["connected"][ec] > 0
        /\ Bounded(connected(Take(req, "connected", ec), ec))
        /\ req' = connected(Take(req, "connected", ec), ec)
        /\ rLast' = Did("connected", ec)
        /\ UNCHANGED othersRequest

OnRequestSent ==
    \E ec \in {"ok", "err", "aborted"} :
        /\ req.pend["requestSent"][ec] > 0
        /\ Bounded(requestSent(Take(req, "requestSent", ec), ec))
        /\ req' = requestSent(Take(req, "requestSent", ec), ec)
        /\ rLast' = Did("requestSent", ec)
        /\ UNCHANGED othersRequest

OnResponseReceived ==
    \E ec \in {"ok", "err", "aborted"}, rd \in Responses :
        /\ req.pend["responseReceived"][ec] > 0
        /\ Bounded(responseReceived(Take(req, "responseReceived", ec), ec, rd))
        /\ req' = responseReceived(Take(req, "responseReceived", ec), ec, rd)
        /\ rLast' = Did("responseReceived", ec)
        /\ UNCHANGED othersRequest

NextRequest ==
    \/ Start
    \/ Cancel
    \/ Complete
    \/ OnExpired
    \/ OnResolved
    \/ OnConnected
    \/ OnRequestSent
    \/ OnResponseReceived

Spec == InitRequest /\ [][NextRequest]_vars

(***************************************************************************)
(* Claims about replica_core::Request.                                     *)
(***************************************************************************)

\* C1: cancel() on a request that is already FINISHED is a no-op: the state
\* stays FINISHED, the extended state is not altered and the finish callback
\* is not invoked again.
CancelOnFinishedIsNoOp ==
    [][(rLast'.op = "cancel" /\ req.state = "FINISHED")
         => /\ req'.state = "FINISHED"
            /\ req'.extendedState = req.extendedState
            /\ req'.numCallbacks = req.numCallbacks
            /\ req'.pend = req.pend]_vars

\* C1 witness: a cancel() has run on a request it found FINISHED with an
\* extended state other than CANCELLED.
CancelOnFinishedSeen ==
    /\ rLast.op = "cancel"
    /\ rLast.before = "FINISHED"
    /\ req.state = "FINISHED"
    /\ req.extendedState \in {"EXPIRED", "SUCCESS", "SERVER_ERROR"}

\* C2: over the whole lifetime of a request its finish callback is never
\* invoked more than once, however cancel(), the expiration timer and the
\* network handlers interleave.
CallbackAtMostOnce == req.numCallbacks <= 1

\* C3: when the expiration timer fires on a request that is not FINISHED the
\* request becomes FINISHED/EXPIRED and its finish callback is invoked, with
\* the same effects as a cancel apart from the extended state; a timer event
\* on a FINISHED request changes nothing.
ExpirationFinishesRequest ==
    [][(rLast'.op = "expired" /\ rLast'.ec = "ok")
         => IF req.state # "FINISHED"
            THEN /\ req'.state = "FINISHED"
                 /\ req'.extendedState = "EXPIRED"
                 /\ req'.numCallbacks = req.numCallbacks + 1
                 /\ req' = [cancel(Take(req, "expired", "ok"))
                               EXCEPT !.extendedState = "EXPIRED"]
            ELSE req' = Take(req, "expired", "ok")]_vars

\* C3 witness: the timer of a started request with a non-zero expiration
\* interval has fired while the request was IN_PROGRESS.
ExpirationSeen ==
    /\ rLast.op = "expired"
    /\ rLast.ec = "ok"
    /\ rLast.before = "IN_PROGRESS"
    /\ req.requestExpirationIvalSec # 0
    /\ req.extendedState = "EXPIRED"
    /\ req.numCallbacks = 1

\* C21: no exception escapes an asynchronous completion handler of a request
\* into the thread that runs it: whatever the worker's response holds, an
\* unknown service state included, the handler ends without raising.
NoExceptionEscapesHandler == req.numThrown = 0

\* C33: once a request is FINISHED it never returns to CREATED or
\* IN_PROGRESS and its extended state never changes; a network handler that
\* runs on a FINISHED request, with an error code or without, starts no
\* asynchronous operation.
FinishedIsFinal ==
    [][req.state = "FINISHED"
         => /\ req'.state = "FINISHED"
            /\ req'.extendedState = req.extendedState
            /\ (rLast'.op \in Handlers \ {"expired"})
                   => \A h \in Handlers :
                          req'.pend[h].waiting <= req.pend[h].waiting]_vars

\* C34: a started request with a non-zero expiration interval reaches
\* FINISHED no later than that interval after start(), whatever restarts
\* happen in between: while the request is not FINISHED its expiration timer
\* is armed (the wait is pending, or has ended with its handler still to run).
ExpirationTimerStaysArmed ==
    (req.state = "IN_PROGRESS" /\ req.requestExpirationIvalSec # 0)
        => req.pend["expired"]["waiting"] + req.pend["expired"]["ok"] > 0

\* C39: when reading the header, the frame or the message of a response
\* fails inside responseReceived, the request is restarted exactly once for
\* that response and nothing more is done for it: one run of the handler
\* makes at most one restart and initiates at most one resolution.
RestartedOncePerResponse ==
    [][rLast'.op = "responseReceived"
         => /\ req'.numRestarts <= req.numRestarts + 1
            /\ req'.pend["resolved"]["waiting"]
                   <= req.pend["resolved"]["waiting"] + 1]_vars


(***************************************************************************)
(* replica::DatabaseServicesMySQL: the replica and replica_file tables.    *)
(*                                                                         *)
(* replicaTable[c] is the row of table replica for chunk c of the worker   *)
(* and database of the model with its rows of replica_file, or NoRow.      *)
(* A ReplicaInfo of another worker is out of the scope of every save.      *)
(***************************************************************************)
ThisWorker == "worker-A"

Workers == {ThisWorker, "worker-B"}

ReplicaStatuses == {"COMPLETE", "INCOMPLETE"}

FileInfos == [name : {"f", "g"}, size : {10, 20}]

FileInfoCollections ==
    { <<[name |-> "f", size |-> 10]>>,
      <<[name |-> "f", size |-> 20], [name |-> "g", size |-> 10]>>,
      <<[name |-> "g", size |-> 10], [name |-> "f", size |-> 20]>> }

\* the replicas a collection may list: any replica of this worker, and
\* replicas of another worker
ReplicaInfos ==
    [status : ReplicaStatuses, worker : {ThisWorker}, chunk : Chunks,
     fileInfo : FileInfoCollections]
    \cup
    [status : {"COMPLETE"}, worker : Workers \ {ThisWorker}, chunk : Chunks,
     fileInfo : {<<[name |-> "f", size |-> 10]>>}]

ReplicaInfoCollections ==
    UNION { [1..n -> ReplicaInfos] : n \in 0..MaxColl }

\* std::map<string, FileInfo>: a later file of the same name replaces an earlier
fileInfoMap(files) ==
    [n \in { files[i].name : i \in DOMAIN files } |->
        files[CHOOSE i \in DOMAIN files :
                /\ files[i].name = n
                /\ \A j \in DOMAIN files : files[j].name = n => j <= i]]

equalFileCollections(this, other) ==
    LET thisFileInfo == fileInfoMap(this)
        otherFileInfo == fileInfoMap(other)
    IN  /\ Cardinality(DOMAIN thisFileInfo) = Cardinality(DOMAIN otherFileInfo)
        /\ \A n \in DOMAIN thisFileInfo :
              /\ n \in DOMAIN otherFileInfo
              /\ otherFileInfo[n] = thisFileInfo[n]

\* ReplicaInfo::operator!= as step 6 of the algorithm uses it: a deep
\* comparison of the file lists
ReplicaInfoDiffers(new, old) == ~equalFileCollections(new.fileInfo, old.fileInfo)

deleteReplicaInfoImpl(t, chunk) == [t EXCEPT ![chunk] = NoRow]

\* INSERT of a COMPLETE replica and its files; on a duplicate key the row is
\* deleted and the insert is repeated; any other replica is deleted
saveReplicaInfoImpl(t, info) ==
    IF info.status = "COMPLETE"
    THEN IF t[info.chunk] = NoRow
         THEN [t EXCEPT ![info.chunk] = info.fileInfo]
         ELSE [deleteReplicaInfoImpl(t, info.chunk) EXCEPT ![info.chunk] = info.fileInfo]
    ELSE deleteReplicaInfoImpl(t, info.chunk)

\* every replica read from the tables is reported COMPLETE
RowAsReplicaInfo(t, chunk) ==
    [status |-> "COMPLETE", worker |-> ThisWorker, chunk |-> chunk,
     fileInfo |-> t[chunk]]

findWorkerReplicasImpl(t) ==
    { RowAsReplicaInfo(t, c) : c \in { c \in Chunks : t[c] # NoRow } }

\* newReplicas.atWorker(..).atDatabase(..).atChunk(chunk) = &replica: of the
\* replicas of the worker the last one listed for a chunk stays in the map
newReplicasOf(coll) ==
    [c \in { coll[i].chunk : i \in { i \in DOMAIN coll : coll[i].worker = ThisWorker } } |->
        coll[CHOOSE i \in DOMAIN coll :
                /\ coll[i].worker = ThisWorker
                /\ coll[i].chunk = c
                /\ \A j \in DOMAIN coll :
                      (coll[j].worker = ThisWorker /\ coll[j].chunk = c) => j <= i]]

oldReplicasOf(found) == [c \in { r.chunk : r \in found } |-> CHOOSE r \in found : r.chunk = c]

\* found is what findWorkerReplicasImpl has put into oldReplicaInfoCollection;
\* its return value is not looked at
saveReplicaInfoCollectionImpl(t, coll, found) ==
    LET newReplicas == newReplicasOf(coll)
        oldReplicas == oldReplicasOf(found)
        inBoth == DOMAIN newReplicas \cap DOMAIN oldReplicas
        inNewReplicasOnly == DOMAIN newReplicas \ DOMAIN oldReplicas
        inOldReplicasOnly == DOMAIN oldReplicas \ DOMAIN newReplicas
    IN  [c \in Chunks |->
            IF c \in inOldReplicasOnly THEN deleteReplicaInfoImpl(t, c)[c]
            ELSE IF c \in inNewReplicasOnly THEN saveReplicaInfoImpl(t, newReplicas[c])[c]
            ELSE IF c \in inBoth /\ ReplicaInfoDiffers(newReplicas[c], oldReplicas[c])
                 THEN saveReplicaInfoImpl(deleteReplicaInfoImpl(t, c), newReplicas[c])[c]
            ELSE t[c]]

\* findReplicasImpl catches database::mysql::Error and returns false with the
\* replicas it has read so far
FindOutcomes(t) ==
    { [ok |-> TRUE, found |-> findWorkerReplicasImpl(t)] } \cup
    { [ok |-> FALSE, found |-> f] : f \in SUBSET findWorkerReplicasImpl(t) }

IdleDb ==
    /\ replicaTable = IdleReplicaTable
    /\ dbLast = [op |-> "none"]

InitDb ==
    /\ IdleDb
    /\ IdleRequest
    /\ ssi = IdleSsiRequest
    /\ qr = IdleQueryRequest
    /\ IdleController
    /\ IdleAnalysis

\* saveReplicaInfo(info): begin, saveReplicaInfoImpl, commit
SaveReplicaInfo ==
    \E info \in ReplicaInfos :
        /\ info.worker = ThisWorker
        /\ replicaTable' = saveReplicaInfoImpl(replicaTable, info)
        /\ dbLast' = [op |-> "saveReplicaInfo"]
        /\ UNCHANGED othersDb

\* saveReplicaInfoCollection(worker, database, coll): begin,
\* saveReplicaInfoCollectionImpl, commit
SaveReplicaInfoCollection ==
    \E coll \in ReplicaInfoCollections, fo \in FindOutcomes(replicaTable) :
        /\ replicaTable' = saveReplicaInfoCollectionImpl(replicaTable, coll, fo.found)
        /\ dbLast' = [op |-> "saveReplicaInfoCollection", coll |-> coll,
                      findOk |-> fo.ok, returned |-> TRUE]
        /\ UNCHANGED othersDb

\* a statement of the save fails with database::mysql::Error: rollback, and
\* std::runtime_error to the caller
SaveReplicaInfoCollectionFails ==
    /\ replicaTable' = replicaTable
    /\ dbLast' = [op |-> "saveReplicaInfoCollection", coll |-> <<>>,
                  findOk |-> TRUE, returned |-> FALSE]
    /\ UNCHANGED othersDb

NextDb ==
    \/ SaveReplicaInfo
    \/ SaveReplicaInfoCollection
    \/ SaveReplicaInfoCollectionFails

SpecDb == InitDb /\ [][NextDb]_vars

(***************************************************************************)
(* Claims about DatabaseServicesMySQL.                                     *)
(***************************************************************************)
SavedSuccessfully ==
    /\ dbLast.op = "saveReplicaInfoCollection"
    /\ dbLast.returned

\* two collections are equal up to ordering: the same chunks, and for each
\* chunk the same files
SameReplicas(found, coll) ==
    /\ \A r \in found : \E i \in DOMAIN coll :
          /\ coll[i].chunk = r.chunk
          /\ equalFileCollections(coll[i].fileInfo, r.fileInfo)
    /\ \A i \in DOMAIN coll : \E r \in found :
          /\ coll[i].chunk = r.chunk
          /\ equalFileCollections(coll[i].fileInfo, r.fileInfo)

\* the collection is one that FindAll on the worker reports in full: COMPLETE
\* replicas of this worker, one per chunk
CompleteCollectionOfWorker(coll) ==
    /\ \A i \in DOMAIN coll : coll[i].worker = ThisWorker /\ coll[i].status = "COMPLETE"
    /\ \A i, j \in DOMAIN coll : coll[i].chunk = coll[j].chunk => i = j

\* C4: after saveReplicaInfoCollection(worker, database, newCollection) has
\* returned successfully, findWorkerReplicas(worker, database) returns a
\* collection equal to newCollection up to ordering.  Stated for the
\* collections of COMPLETE replicas of the worker with one entry per chunk.
SavedCollectionIsPersisted ==
    (SavedSuccessfully /\ CompleteCollectionOfWorker(dbLast.coll))
        => SameReplicas(findWorkerReplicasImpl(replicaTable), dbLast.coll)


(***************************************************************************)
(* xrdsvc::SsiRequest: execute(), run by the thread of the transport that  *)
(* delivers the request, and Finished(), which the transport may call on   *)
(* another thread as soon as the request is bound.                         *)
(***************************************************************************)
UnitTypes == {"DBCHUNK", "WORKER", "CQUERY"}

\* the chunks of the local chunk inventory
Inventory == {1}

\* a request: its resource, what the validator says of a resource that is
\* no chunk, and how its payload decodes
SsiResources ==
    [unitType : UnitTypes, chunk : Chunks, owned : BOOLEAN,
     decodes : BOOLEAN, matches : BOOLEAN,
     cmd : {"RELOAD_CHUNK_LIST", "OTHER_CMD"}]

\* (*_validator)(ru)
validator(ru) ==
    IF ru.unitType = "DBCHUNK" THEN ru.chunk \in Inventory ELSE ru.owned

NewSsiRequest(ru) ==
    [pc |-> "execute", resource |-> ru, finMutex |-> "free", bound |-> FALSE,
     log |-> <<>>, finPc |-> "idle", finishedEarly |-> FALSE]

Event(name) == [ev |-> name, code |-> "none"]

SendError(code) == [ev |-> "sendError", code |-> code]

reportError_noRelease(s) ==
    [s EXCEPT !.log = Append(@, SendError("EINVAL"))]

\* ReplyChannel::sendError(errStr, EINVAL); ReleaseRequestBuffer();
reportError(s) ==
    [s EXCEPT !.log = Append(Append(@, SendError("EINVAL")), Event("ReleaseRequestBuffer"))]

handOff_releaseAfter(s, what) ==
    [s EXCEPT !.log = Append(Append(@, Event(what)), Event("ReleaseRequestBuffer"))]

\* ReleaseRequestBuffer(); _processor->processTask(task) or processCommand(command)
handOff(s, what) ==
    [s EXCEPT !.log = Append(Append(@, Event("ReleaseRequestBuffer")), Event(what))]

\* the body of execute() from the validation on, under _finMutex
executeBody(s) ==
    LET ru == s.resource
    IN  IF ~validator(ru) THEN reportError(s)
        ELSE IF ru.unitType = "DBCHUNK"
             THEN IF ~ru.decodes THEN reportError(s)
                  ELSE IF ~ru.matches THEN reportError(s)
                  ELSE handOff(s, "processTask")
        ELSE IF ru.unitType = "WORKER"
             THEN IF ~ru.decodes THEN reportError(s)
                  ELSE IF ru.cmd # "RELOAD_CHUNK_LIST" THEN reportError(s)
                  ELSE handOff(s, "processCommand")
        ELSE reportError(s)

InitSsi ==
    /\ \E ru \in SsiResources : ssi = NewSsiRequest(ru)
    /\ IdleRequest
    /\ IdleDb
    /\ qr = IdleQueryRequest
    /\ IdleController
    /\ IdleAnalysis

\* req.GetRequest(reqSize); std::lock_guard<std::mutex> lock(_finMutex);
ExecLock ==
    /\ ssi.pc = "execute"
    /\ ssi.finMutex = "free"
    /\ ssi' = [ssi EXCEPT !.pc = "locked", !.finMutex = "execute"]
    /\ UNCHANGED othersSsi

ExecBindRequest ==
    /\ ssi.pc = "locked"
    /\ ssi' = [ssi EXCEPT !.pc = "bound", !.bound = TRUE]
    /\ UNCHANGED othersSsi

ExecBody ==
    /\ ssi.pc = "bound"
    /\ ssi' = [executeBody(ssi) EXCEPT !.pc = "return"]
    /\ UNCHANGED othersSsi

\* the lock_guard releases _finMutex when execute() returns
ExecReturn ==
    /\ ssi.pc = "return"
    /\ ssi' = [ssi EXCEPT !.pc = "done", !.finMutex = "free"]
    /\ UNCHANGED othersSsi

\* the transport calls Finished() once the request is bound
FinishedCalled ==
    /\ ssi.bound
    /\ ssi.finPc = "idle"
    /\ ssi' = [ssi EXCEPT !.finPc = "lock", !.finishedEarly = (ssi.pc # "done")]
    /\ UNCHANGED othersSsi

FinLock_noWait ==
    /\ ssi.finPc = "lock"
    /\ ssi' = [ssi EXCEPT !.finPc = "unlock"]
    /\ UNCHANGED othersSsi

\* _finMutex.lock();
FinLock ==
    /\ ssi.finPc = "lock"
    /\ ssi.finMutex = "free"
    /\ ssi' = [ssi EXCEPT !.finPc = "unlock", !.finMutex = "Finished"]
    /\ UNCHANGED othersSsi

\* _finMutex.unlock();
FinUnlock ==
    /\ ssi.finPc = "unlock"
    /\ ssi' = [ssi EXCEPT !.finPc = "release", !.finMutex = "free"]
    /\ UNCHANGED othersSsi

\* the rest of Finished(): the resources of the request are let go
FinRelease ==
    /\ ssi.finPc = "release"
    /\ ssi' = [ssi EXCEPT !.finPc = "done"]
    /\ UNCHANGED othersSsi

NextSsi ==
    \/ ExecLock
    \/ ExecBindRequest
    \/ ExecBody
    \/ ExecReturn
    \/ FinishedCalled
    \/ FinLock
    \/ FinUnlock
    \/ FinRelease

SpecSsi == InitSsi /\ [][NextSsi]_vars

(***************************************************************************)
(* Claims about SsiRequest.                                                *)
(***************************************************************************)
EventsOf(s) == { s.log[i].ev : i \in DOMAIN s.log }

\* C5: Finished(), even when it is called on another thread as soon as the
\* request is bound, does not go on to free the resources of the request
\* before execute() has completed its setup and released _finMutex.
FinishedWaitsForExecute ==
    ssi.finPc \in {"release", "done"} => (ssi.pc = "done" /\ ssi.finMutex = "free")

\* C5 witness: Finished() was called while execute() was still running and
\* has gone on to free the resources.
FinishedEarlySeen ==
    /\ ssi.finishedEarly
    /\ ssi.finPc = "done"

\* C6: on every path of execute() that hands a task or a command to the
\* processor, the request buffer is released before processTask or
\* processCommand is called.
BufferReleasedBeforeHandOff ==
    \A i \in DOMAIN ssi.log :
        ssi.log[i].ev \in {"processTask", "processCommand"}
            => \E j \in 1..(i - 1) : ssi.log[j].ev = "ReleaseRequestBuffer"

\* C6 witness: both a task and a command are handed to the processor (in
\* different runs); this is the task.
TaskHandedOff ==
    /\ ssi.pc = "done"
    /\ "processTask" \in EventsOf(ssi)

UnownedChunkDone ==
    /\ ssi.pc = "done"
    /\ ssi.resource.unitType = "DBCHUNK"
    /\ ssi.resource.chunk \notin Inventory

\* C7 as stated: a request for a chunk that is not in the local chunk
\* inventory is answered with a NOT_FOUND error, its request buffer is
\* released and no task is enqueued.
UnownedChunkAnsweredNotFound ==
    UnownedChunkDone
        => /\ \E i \in DOMAIN ssi.log : ssi.log[i] = SendError("NOT_FOUND")
           /\ "ReleaseRequestBuffer" \in EventsOf(ssi)
           /\ "processTask" \notin EventsOf(ssi)

\* C7 as amended: a request for a chunk that is not in the local chunk
\* inventory is answered with one error reply, whose code is EINVAL, its
\* request buffer is released after the reply and no task is enqueued.
UnownedChunkAnsweredWithError ==
    UnownedChunkDone
        => ssi.log = <<SendError("EINVAL"), Event("ReleaseRequestBuffer")>>

\* C7 witness: execute() has returned for a chunk that is not in the inventory
\* although its payload decodes and matches.
UnownedChunkSeen ==
    /\ UnownedChunkDone
    /\ ssi.resource.decodes
    /\ ssi.resource.matches


(***************************************************************************)
(* qdisp::QueryRequest: the callbacks of the transport for one chunk       *)
(* request.  GetResponseData is asynchronous: the transport may call       *)
(* ProcessResponseData for the block it has read on another thread while   *)
(* the call that has asked for it is still returning.  qr.h[i] is the i-th *)
(* call of ProcessResponseData.                                            *)
(***************************************************************************)
RespTypes == {"isNone", "isData", "isError", "isFile", "isStream"}

NotCalled == [pc |-> "none", blen |-> 0, last |-> FALSE]

NewQueryRequest ==
    [pc |-> "request", status |-> "REQUEST", bufferRemain |-> 0, read |-> 0,
     finished |-> FALSE, eof |-> FALSE, nBlocks |-> 0, log |-> <<>>,
     h |-> [i \in 1..MaxBlocks |-> NotCalled]]

Call(name) == [ev |-> name, len |-> 0, last |-> FALSE, held |-> 0]

\* _receiver->flush(len, last); held is the number of bytes that the reads
\* have put into the buffer since it was last reset
FlushCall(q, len, last) ==
    [ev |-> "flush", len |-> len, last |-> last,
     held |-> BufferSize - q.bufferRemain]

Logged(q, e) == [q EXCEPT !.log = Append(@, e)]

\* _status.report(state)
report(q, state) == [q EXCEPT !.status = state]

\* _buffer = _receiver->buffer(); _bufferSize = _receiver->bufferSize();
\* _cursor = _buffer; _bufferRemain = _bufferSize;
resetBuffer(q) == [q EXCEPT !.bufferRemain = BufferSize]

\* Finished() of XrdSsiRequest: the request is over for the transport
Finished(q) == [Logged(q, Call("Finished")) EXCEPT !.finished = TRUE, !.read = 0]

errorFinish(q) == Finished(q)

importError_noFinish(q) == Logged(q, Call("errorFlush"))

\* _receiver->errorFlush(msg, code); _errorFinish();
importError(q) == errorFinish(Logged(q, Call("errorFlush")))

\* GetResponseData(_cursor, _bufferRemain) has returned true
GetResponseData(q) == [Logged(q, Call("GetResponseData")) EXCEPT !.read = q.bufferRemain]

importStream(q, retrieveInitiated) ==
    LET q1 == resetBuffer(q)
    IN  IF retrieveInitiated
        THEN GetResponseData(q1)
        ELSE Finished(report(q1, "RESPONSE_DATA_ERROR"))

\* the failures of the response and of a data read are marked in the log
Failed(q) == Logged(q, Call("failure"))

ProcessResponseOf(q, rType, isOk, retrieveInitiated) ==
    IF ~isOk
    THEN report(importError(Failed(q)), "RESPONSE_ERROR")
    ELSE IF rType = "isError"
         THEN importError(report(Failed(q), "RESPONSE_ERROR"))
    ELSE IF rType = "isStream"
         THEN importStream(report(q, "RESPONSE_READY"), retrieveInitiated)
    ELSE importError(Failed(q))

\* where ProcessResponseData goes after it has moved the cursor
AfterCursor(q, blen, last) ==
    IF blen > 0
    THEN IF q.bufferRemain = 0 THEN "flushFull"
         ELSE IF ~last THEN "askAgain" ELSE "finalFlush"
    ELSE "finalFlush"

AfterFlushFull(last) == IF ~last THEN "askAgain" ELSE "finalFlush"

InitQuery ==
    /\ qr = NewQueryRequest
    /\ IdleRequest
    /\ IdleDb
    /\ ssi = IdleSsiRequest
    /\ IdleController
    /\ IdleAnalysis

\* the transport reports the response of the worker
ProcessResponse ==
    \E rType \in RespTypes, isOk \in BOOLEAN, retrieveInitiated \in BOOLEAN :
        /\ qr.pc = "request"
        /\ qr' = [ProcessResponseOf(qr, rType, isOk, retrieveInitiated)
                     EXCEPT !.pc = "responded"]
        /\ UNCHANGED othersQuery

\* the transport has read a block for the read that is outstanding: the i-th
\* call of ProcessResponseData, up to the first call it makes to the receiver
\* or to the transport
ProcessResponseData(i) ==
    \E blen \in (-1)..qr.read, last \in BOOLEAN :
        /\ qr.read > 0
        /\ ~qr.finished
        /\ ~qr.eof
        /\ i = qr.nBlocks + 1
        /\ LET q0 == [qr EXCEPT !.read = 0, !.nBlocks = i,
                                !.eof = (last /\ blen >= 0)]
           IN  IF blen < 0
               THEN qr' = [errorFinish(Logged(report(Failed(q0), "RESPONSE_DATA_NACK"),
                                              Call("errorFlush")))
                              EXCEPT !.h[i] = [pc |-> "done", blen |-> blen, last |-> last]]
               ELSE LET q1 == report(q0, "RESPONSE_DATA")
                        q2 == IF blen > 0
                              THEN [q1 EXCEPT !.bufferRemain = @ - blen]
                              ELSE q1
                    IN  qr' = [q2 EXCEPT !.h[i] = [pc |-> AfterCursor(q2, blen, last),
                                                   blen |-> blen, last |-> last]]
        /\ UNCHANGED othersQuery

FlushFull_async(i) ==
    /\ qr.h[i].pc = "flushFull"
    /\ qr' = [resetBuffer(Logged(qr, FlushCall(qr, BufferSize, qr.h[i].last)))
                 EXCEPT !.h[i].pc = AfterFlushFull(qr.h[i].last)]
    /\ UNCHANGED othersQuery

\* _receiver->flush(_bufferSize, last) is called
FlushFull(i) ==
    /\ qr.h[i].pc = "flushFull"
    /\ qr' = [Logged(qr, FlushCall(qr, BufferSize, qr.h[i].last))
                 EXCEPT !.h[i].pc = "flushFullReturn"]
    /\ UNCHANGED othersQuery

\* it returns; _resetBuffer();
FlushFullReturn(i) ==
    /\ qr.h[i].pc = "flushFullReturn"
    /\ qr' = [resetBuffer(Logged(qr, Call("flushReturn")))
                 EXCEPT !.h[i].pc = AfterFlushFull(qr.h[i].last)]
    /\ UNCHANGED othersQuery

\* bool askAgainOk = GetResponseData(_cursor, _bufferRemain); after a read
\* that was initiated the call only reports RESPONSE_DATA_ERROR and returns
AskAgain(i) ==
    \E askAgainOk \in BOOLEAN :
        /\ qr.h[i].pc = "askAgain"
        /\ qr' = IF askAgainOk
                 THEN [GetResponseData(qr) EXCEPT !.h[i].pc = "dataError"]
                 ELSE [errorFinish(qr) EXCEPT !.h[i].pc = "done"]
        /\ UNCHANGED othersQuery

\* _status.report(ExecStatus::RESPONSE_DATA_ERROR, -1, reason);
DataError(i) ==
    /\ qr.h[i].pc = "dataError"
    /\ qr' = [report(qr, "RESPONSE_DATA_ERROR") EXCEPT !.h[i].pc = "done"]
    /\ UNCHANGED othersQuery

\* last || blen == 0: _receiver->flush(blen, last) is called
FinalFlush(i) ==
    /\ qr.h[i].pc = "finalFlush"
    /\ qr' = [Logged(qr, FlushCall(qr, qr.h[i].blen, qr.h[i].last))
                 EXCEPT !.h[i].pc = "finalFlushReturn"]
    /\ UNCHANGED othersQuery

\* it returns; _status.report(ExecStatus::RESPONSE_DONE); _finish();
FinalFlushReturn(i) ==
    /\ qr.h[i].pc = "finalFlushReturn"
    /\ qr' = [Finished(report(Logged(qr, Call("flushReturn")), "RESPONSE_DONE"))
                 EXCEPT !.h[i].pc = "done"]
    /\ UNCHANGED othersQuery

NextQuery ==
    \/ ProcessResponse
    \/ \E i \in 1..MaxBlocks : ProcessResponseData(i)
    \/ \E i \in 1..MaxBlocks : FlushFull(i)
    \/ \E i \in 1..MaxBlocks : FlushFullReturn(i)
    \/ \E i \in 1..MaxBlocks : AskAgain(i)
    \/ \E i \in 1..MaxBlocks : DataError(i)
    \/ \E i \in 1..MaxBlocks : FinalFlush(i)
    \/ \E i \in 1..MaxBlocks : FinalFlushReturn(i)

SpecQuery == InitQuery /\ [][NextQuery]_vars

(***************************************************************************)
(* Claims about QueryRequest.                                              *)
(***************************************************************************)
IndicesOf(q, evs) == { i \in DOMAIN q.log : q.log[i].ev \in evs }

Last(S) == CHOOSE i \in S : \A j \in S : j <= i

\* C8: for every chunk request that completes successfully (status
\* RESPONSE_DONE), flush has been called at least once and the last flush
\* call made for the request carries isLast = true.
LastFlushIsLast ==
    qr.status = "RESPONSE_DONE"
        => /\ IndicesOf(qr, {"flush"}) # {}
           /\ qr.log[Last(IndicesOf(qr, {"flush"}))].last

\* C9: a read (GetResponseData) is never issued while a flush of the
\* receiver of the request is still executing: before every read, every
\* flush call made so far has returned.
NoReadDuringFlush ==
    \A i \in IndicesOf(qr, {"GetResponseData"}) :
        Cardinality({ j \in IndicesOf(qr, {"flush"}) : j < i })
            = Cardinality({ j \in IndicesOf(qr, {"flushReturn"}) : j < i })

\* C9 witness: a read has been issued after a flush of the full buffer.
ReadAfterFlushSeen ==
    \E i \in IndicesOf(qr, {"GetResponseData"}) :
        \E j \in IndicesOf(qr, {"flush"}) : j < i

\* C10: when the response or a data read fails (response not ok, error-typed
\* or unexpected response, negative data length), errorFlush is invoked and
\* Finished is called, and no flush or read is performed for the request
\* afterwards.
FailureEndsRequest ==
    \A k \in IndicesOf(qr, {"failure"}) :
        /\ \E i \in IndicesOf(qr, {"errorFlush"}) : i > k
        /\ \E i \in IndicesOf(qr, {"Finished"}) : i > k
        /\ \A i \in IndicesOf(qr, {"flush", "GetResponseData"}) : i < k
        /\ qr.finished

\* C10 witness: a data read has failed with a negative length after a block
\* had been flushed and another read issued.
DataReadFailureSeen ==
    /\ qr.status = "RESPONSE_DATA_NACK"
    /\ IndicesOf(qr, {"failure"}) # {}
    /\ IndicesOf(qr, {"flush"}) # {}

\* the number of bytes that the calls of ProcessResponseData up to the n-th
\* have received
RECURSIVE BytesReceived(_, _)
BytesReceived(q, n) ==
    IF n = 0 THEN 0
    ELSE BytesReceived(q, n - 1) + (IF q.h[n].blen > 0 THEN q.h[n].blen ELSE 0)

\* the number of bytes that the flush calls among the first n entries of the
\* log have handed to the receiver
RECURSIVE BytesFlushed(_, _)
BytesFlushed(q, n) ==
    IF n = 0 THEN 0
    ELSE BytesFlushed(q, n - 1)
             + (IF q.log[n].ev = "flush" THEN q.log[n].len ELSE 0)

\* C36: for a successful chunk request the flush calls hand every byte
\* received from the stream to the receiver exactly once and in order: each
\* flush hands over exactly the bytes put into the buffer since the last
\* reset, and together they hand over as many bytes as were received.
FlushesCoverStream ==
    qr.status = "RESPONSE_DONE"
        => /\ \A i \in IndicesOf(qr, {"flush"}) :
                  qr.log[i].len = qr.log[i].held
           /\ BytesFlushed(qr, Len(qr.log)) = BytesReceived(qr, MaxBlocks)

\* the terminal notifications of the receiver
Terminal(q) ==
    {i \in DOMAIN q.log :
        \/ q.log[i].ev = "errorFlush"
        \/ q.log[i].ev = "flush" /\ q.log[i].last}

\* the transport has been told that the request is over and no callback runs
Terminated(q) ==
    /\ q.finished
    /\ \A i \in 1..MaxBlocks : q.h[i].pc \in {"none", "done"}

\* C37: a chunk request that terminates delivers exactly one terminal
\* notification to its receiver, a flush with isLast = true or an
\* errorFlush; it never delivers two.
OneTerminalNotification ==
    /\ Cardinality(Terminal(qr)) <= 1
    /\ Terminated(qr) => Cardinality(Terminal(qr)) = 1

\* C38: while the response stream is well formed the status never reports
\* RESPONSE_DATA_ERROR: a data block that is not empty and not the last one
\* only causes the next read to be issued.
NoDataErrorOnGoodStream ==
    qr.status = "RESPONSE_DATA_ERROR"
        => \A i \in 1..MaxBlocks :
               ~(qr.h[i].pc = "done" /\ qr.h[i].blen > 0 /\ ~qr.h[i].last)

(***************************************************************************)
(* replica_core::JobScheduler                                              *)
(*                                                                         *)
(* Every instance is a process of its own with one JobScheduler; the       *)
(* instances share the table master_lock of the database server.  The      *)
(* state of an instance:                                                   *)
(*   thread      "none" (_thread is null), "running" (the scheduler thread *)
(*               is in its loop), "returned" (the thread function has      *)
(*               returned, _thread is not yet reset), "terminated" (an     *)
(*               exception left the thread function: std::terminate ends   *)
(*               the process);                                             *)
(*   caller      "idle", or "join" while stop() waits in _thread->join();  *)
(*   controller  "created", "running" after Controller::run, "stopped";    *)
(*   outstanding the jobs that were registered when the stopping sequence  *)
(*               called cancelAll (kept for the statement of properties).  *)
(***************************************************************************)
Instances == {"master-1", "master-2"}

JobIds == {1, 2}

Nobody == "nobody"

NewJobScheduler(exclusive) ==
    [ exclusive         |-> exclusive,
      controller        |-> "created",
      connection        |-> FALSE,
      stop              |-> FALSE,
      thread            |-> "none",
      caller            |-> "idle",
      registry          |-> {},
      jobs              |-> [j \in JobIds |-> "CREATED"],
      probe             |-> "none",
      outstanding       |-> {},
      numThreads        |-> 0,
      numControllerRuns |-> 0,
      numLockRequests   |-> 0,
      numWakeUps        |-> 0 ]

NewMasterLock == [rows |-> {}, holder |-> Nobody]

isRunning(s) == s.thread # "none"

\* the process of the instance is alive
Alive(s) == s.thread # "terminated"

\* ExclusiveMultiMasterLock::request: open the connection, insert the row,
\* LOCK TABLES master_lock WRITE (which waits until the table is free)
request(w, i) ==
    [w EXCEPT !.js[i].connection = TRUE,
              !.js[i].numLockRequests = @ + 1,
              !.master_lock = [rows |-> @.rows \cup {i}, holder |-> i]]

\* ExclusiveMultiMasterLock::release: "ok" or the exception thrown
release(w, i) ==
    IF ~w.js[i].connection
    THEN [w |-> w, thrown |-> "logic_error"]
    ELSE [w |-> [w EXCEPT !.master_lock.holder =
                              IF @ = i THEN Nobody ELSE @],
          thrown |-> "none"]

\* ExclusiveMultiMasterLock::test: the exception thrown by the probe;
\* queryOk tells whether the server answered the query
test(w, i, queryOk) ==
    IF ~w.js[i].connection THEN "logic_error"
    ELSE IF queryOk /\ w.master_lock.holder = i THEN "none"
    ELSE "runtime_error"

requestMultiMasterLock(w, i) ==
    IF ~isRunning(w.js[i]) THEN w
    ELSE IF w.js[i].exclusive THEN request(w, i)
    ELSE w

\* requestMultiMasterLock returns at once unless it has to wait for the table
requestMultiMasterLockReturns(w, i) ==
    (isRunning(w.js[i]) /\ w.js[i].exclusive) => w.master_lock.holder = Nobody

releaseMultiMasterLock(w, i) ==
    IF ~isRunning(w.js[i]) THEN [w |-> w, thrown |-> "none"]
    ELSE IF w.js[i].exclusive THEN release(w, i)
    ELSE [w |-> w, thrown |-> "none"]

testMultiMasterLock(w, i, queryOk) ==
    IF ~isRunning(w.js[i]) THEN "none"
    ELSE IF w.js[i].exclusive THEN test(w, i, queryOk)
    ELSE "none"

\* JobScheduler::cancelAll: takes the mutex and returns
cancelAll(w, i) == w

\* JobScheduler::runScheduled and runQueued: nothing is queued or scheduled
runScheduled(w, i) == w

\* an exception leaves the thread function: std::terminate ends the process,
\* its connection is closed and the server drops its table lock
terminate(w, i) ==
    [w EXCEPT !.js[i].thread = "terminated",
              !.js[i].controller = "stopped",
              !.master_lock.holder = IF @ = i THEN Nobody ELSE @]

\* JobScheduler::run, the branch taken when the scheduler is not running:
\* lock request, Controller::run, creation of the scheduler thread
startThread(w, i) ==
    LET w1 == requestMultiMasterLock(w, i)
    IN  [w1 EXCEPT !.js[i].controller = "running",
                   !.js[i].numControllerRuns = @ + 1,
                   !.js[i].thread = "running",
                   !.js[i].numThreads = @ + 1,
                   !.js[i].numWakeUps = 0]

run_noCheck(w, i) == startThread(w, i)

run(w, i) == IF ~isRunning(w.js[i]) THEN startThread(w, i) ELSE w

stop_noCheck(w, i) ==
    [w EXCEPT !.js[i].stop = TRUE, !.js[i].caller = "join"]

\* JobScheduler::stop up to _thread->join()
stop(w, i) ==
    IF ~isRunning(w.js[i]) THEN w
    ELSE [w EXCEPT !.js[i].stop = TRUE, !.js[i].caller = "join"]

\* JobScheduler::stop after _thread->join() has returned
joined(w, i) ==
    [w EXCEPT !.js[i].thread = "none",
              !.js[i].stop = FALSE,
              !.js[i].caller = "idle"]

\* one iteration of the loop of the scheduler thread, after blockPost.wait
iteration(w, i, queryOk) ==
    IF w.js[i].stop
    THEN LET w1 == cancelAll([w EXCEPT !.js[i].outstanding =
                                           w.js[i].registry], i)
             w2 == [w1 EXCEPT !.js[i].controller = "stopped"]
             r  == releaseMultiMasterLock(w2, i)
         IN  IF r.thrown # "none" THEN terminate(r.w, i)
             ELSE [r.w EXCEPT !.js[i].thread = "returned"]
    ELSE LET thrown == testMultiMasterLock(w, i, queryOk)
             w1 == [w EXCEPT !.js[i].numWakeUps = @ + 1,
                             !.js[i].probe =
                                 IF ~w.js[i].exclusive THEN @
                                 ELSE IF thrown = "none" THEN "ok" ELSE thrown]
         IN  IF thrown # "none" THEN terminate(w1, i)
             ELSE runScheduled(w1, i)

\* JobScheduler::replicate (findAll and purge alike): register the job and
\* start it
replicate(w, i, j) ==
    [w EXCEPT !.js[i].registry = @ \cup {j},
              !.js[i].jobs[j] = "IN_PROGRESS"]

\* a job finishes and JobScheduler::onFinish removes it from the registry
onFinish(w, i, j) ==
    [w EXCEPT !.js[i].registry = @ \ {j},
              !.js[i].jobs[j] = "FINISHED"]

Called(op, i, wasRunning) == [op |-> op, inst |-> i, wasRunning |-> wasRunning]

InitScheduler ==
    /\ \E ex \in [Instances -> BOOLEAN] :
          sched = [js |-> [i \in Instances |-> NewJobScheduler(ex[i])],
                   master_lock |-> NewMasterLock]
    /\ schedLast = Called("none", "none", FALSE)
    /\ IdleRequest
    /\ IdleDb
    /\ ssi = IdleSsiRequest
    /\ qr = IdleQueryRequest
    /\ IdleControlThread
    /\ IdleReplicate
    /\ IdleConnection
    /\ IdleAnalysis

\* a client calls run()
Run(i) ==
    /\ Alive(sched.js[i])
    /\ isRunning(sched.js[i]) \/ sched.js[i].numThreads < MaxRuns
    /\ requestMultiMasterLockReturns(sched, i)
    /\ sched' = run(sched, i)
    /\ schedLast' = Called("run", i, isRunning(sched.js[i]))
    /\ UNCHANGED othersScheduler

\* a client calls stop(), which goes on to _thread->join() or returns
Stop(i) ==
    /\ Alive(sched.js[i])
    /\ sched.js[i].caller = "idle"
    /\ sched' = stop(sched, i)
    /\ schedLast' = Called("stop", i, isRunning(sched.js[i]))
    /\ UNCHANGED othersScheduler

\* the scheduler thread has returned: join() returns and stop() completes
StopReturns(i) ==
    /\ sched.js[i].caller = "join"
    /\ sched.js[i].thread = "returned"
    /\ sched' = joined(sched, i)
    /\ schedLast' = Called("stopReturns", i, TRUE)
    /\ UNCHANGED othersScheduler

\* the scheduler thread wakes up from blockPost.wait
WakeUp(i) ==
    /\ sched.js[i].thread = "running"
    /\ sched.js[i].stop \/ sched.js[i].numWakeUps < MaxWakeUps
    /\ \E queryOk \in BOOLEAN : sched' = iteration(sched, i, queryOk)
    /\ schedLast' = Called("wakeUp", i, TRUE)
    /\ UNCHANGED othersScheduler

\* a client submits a job; the jobs are numbered in the order of submission
Replicate(i, j) ==
    /\ Alive(sched.js[i])
    /\ sched.js[i].jobs[j] = "CREATED"
    /\ \A k \in JobIds : k < j => sched.js[i].jobs[k] # "CREATED"
    /\ sched' = replicate(sched, i, j)
    /\ schedLast' = Called("replicate", i, isRunning(sched.js[i]))
    /\ UNCHANGED othersScheduler

\* a job comes to its end on the threads of the controller
OnFinish(i, j) ==
    /\ Alive(sched.js[i])
    /\ sched.js[i].controller = "running"
    /\ sched.js[i].jobs[j] = "IN_PROGRESS"
    /\ sched' = onFinish(sched, i, j)
    /\ schedLast' = Called("onFinish", i, isRunning(sched.js[i]))
    /\ UNCHANGED othersScheduler

NextScheduler ==
    \/ \E i \in Instances : Run(i)
    \/ \E i \in Instances : Stop(i)
    \/ \E i \in Instances : StopReturns(i)
    \/ \E i \in Instances : WakeUp(i)
    \/ \E i \in Instances, j \in JobIds : Replicate(i, j)
    \/ \E i \in Instances, j \in JobIds : OnFinish(i, j)

SpecScheduler == InitScheduler /\ [][NextScheduler]_vars

(***************************************************************************)
(* Claims about JobScheduler.                                              *)
(***************************************************************************)
\* the instance runs jobs: its controller has been started and not stopped
Active(i) == sched.js[i].controller = "running"

\* C11: at any time at most one instance created in exclusive mode is
\* actively running jobs (its controller runs only while it holds the
\* exclusive lock on master_lock).
AtMostOneActiveExclusive ==
    Cardinality({i \in Instances : sched.js[i].exclusive /\ Active(i)}) <= 1

\* C12: the probe of the lock ends the scheduler loop only when the lock,
\* once obtained, has been lost: a probe raises an error only in an instance
\* that had requested and obtained the lock.
ProbeFailsOnlyWhenLockLost ==
    \A i \in Instances :
        sched.js[i].probe \in {"logic_error", "runtime_error"}
            => sched.js[i].numLockRequests > 0

\* C13: when stop() has returned, no job that was outstanding (registered
\* and not finished) when the stopping sequence began is still IN_PROGRESS.
NoJobInProgressAfterStop ==
    \A i \in Instances :
        (schedLast.op = "stopReturns" /\ schedLast.inst = i)
            => \A j \in sched.js[i].outstanding :
                   sched.js[i].jobs[j] # "IN_PROGRESS"

ConfigWorkers == <<"A", "B", "C">>

WorkerNames == {ConfigWorkers[k] : k \in 1..Len(ConfigWorkers)}

ChunkNumbers == [k \in 1..Cardinality(Chunks) |-> k]

ReplicaStates == {"none", "good", "bad", "other"}

\* the numbers that the replica-creation jobs of one plan can have
ChildIds == 1..(Cardinality(Chunks) * Len(ConfigWorkers))

ReplicationLevels == {2, 3}

ProcessingThreads == {0, 1}

FindAllJobResults ==
    [ extendedState : {"SUCCESS", "FAILED"},
      replicas      : [Chunks -> [WorkerNames -> ReplicaStates]],
      workers       : [WorkerNames -> BOOLEAN] ]

\* the keys of replicaData.isGood.at(chunk), in the order of the map
isGoodEntries(data, chunk) ==
    SelectSeq(ConfigWorkers,
              LAMBDA w : data.replicas[chunk][w] \in {"good", "bad"})

\* the first of the workers ws for which f is the least; "" if there is none
FirstMin(ws, f) ==
    IF ws = <<>> THEN ""
    ELSE LET i == CHOOSE i \in 1..Len(ws) :
                      /\ \A j \in 1..Len(ws) : f[ws[i]] <= f[ws[j]]
                      /\ \A j \in 1..(i - 1) : f[ws[j]] > f[ws[i]]
         IN  ws[i]

NewReplicateJob(data, numReplicas, threads) ==
    [ state         |-> "CREATED",
      extendedState |-> "NONE",
      numReplicas   |-> numReplicas,
      workerNumProcessingThreads |-> threads,
      replicaData   |-> data,
      findAllJob    |-> "CREATED",
      plan          |-> <<>>,
      child         |-> <<>>,
      jobs          |-> <<>>,
      activeJobs    |-> <<>>,
      numLaunched   |-> 0,
      numFinished   |-> 0,
      numSuccess    |-> 0,
      numCallbacks  |-> 0,
      failedAt      |-> "none",
      dispatched    |-> <<>> ]

\* Job::finish: the final state, then the notification of the owner
Job_finish(job, extendedState) ==
    IF job.state = "FINISHED" THEN job
    ELSE [job EXCEPT !.state = "FINISHED",
                     !.extendedState = extendedState,
                     !.numCallbacks = @ + 1]

\* chunk2numReplicas2create: the chunks of isGood with fewer entries than
\* the replication level, in the order of the map
chunk2numReplicas2create(job, chunk) ==
    LET numReplicas == Len(isGoodEntries(job.replicaData, chunk))
    IN  IF numReplicas > 0 /\ numReplicas < job.numReplicas
        THEN job.numReplicas - numReplicas
        ELSE 0

\* worker2occupancy as initialised from the result of the precursor job
worker2occupancy(data) ==
    [w \in WorkerNames |->
        Cardinality({c \in Chunks : data.replicas[c][w] = "good"})]

\* the workers that the precursor job has not reported as failed
whiteList(data) == SelectSeq(ConfigWorkers, LAMBDA w : data.workers[w])

\* the loop over the replicas of one chunk with worker2occupancy left as the
\* precursor job reported it
RECURSIVE planDestinations_noBump(_, _, _, _, _)
planDestinations_noBump(data, p, chunk, sourceWorker, n) ==
    IF n = 0 THEN p
    ELSE LET destinationWorker ==
                 FirstMin(SelectSeq(whiteList(data),
                              LAMBDA w : data.replicas[chunk][w] = "none"),
                          p.worker2occupancy)
         IN  IF destinationWorker = ""
             THEN [p EXCEPT !.failedAt = "noDestination"]
             ELSE planDestinations_noBump(data,
                      [p EXCEPT
                          !.jobs = Append(@,
                              [chunk |-> chunk,
                               sourceWorker |-> sourceWorker,
                               destinationWorker |-> destinationWorker]),
                          !.sourceWorkerAllocations[sourceWorker] = @ + 1],
                      chunk, sourceWorker, n - 1)

\* the planner's loop over the replicas to create for one chunk
RECURSIVE planDestinations(_, _, _, _, _)
planDestinations(data, p, chunk, sourceWorker, n) ==
    IF n = 0 THEN p
    ELSE LET destinationWorker ==
                 FirstMin(SelectSeq(whiteList(data),
                              LAMBDA w : data.replicas[chunk][w] = "none"),
                          p.worker2occupancy)
         IN  IF destinationWorker = ""
             THEN [p EXCEPT !.failedAt = "noDestination"]
             ELSE planDestinations(data,
                      [p EXCEPT
                          !.jobs = Append(@,
                              [chunk |-> chunk,
                               sourceWorker |-> sourceWorker,
                               destinationWorker |-> destinationWorker]),
                          !.worker2occupancy[destinationWorker] = @ + 1,
                          !.sourceWorkerAllocations[sourceWorker] = @ + 1],
                      chunk, sourceWorker, n - 1)

\* the loop over the chunks with the first good replica as the source
RECURSIVE planChunks_firstGood(_, _, _, _)
planChunks_firstGood(job, data, p, chunks) ==
    IF chunks = <<>> \/ p.failedAt # "none" THEN p
    ELSE LET chunk == Head(chunks)
             good == SelectSeq(isGoodEntries(data, chunk),
                         LAMBDA w : data.replicas[chunk][w] = "good")
             sourceWorker == IF good = <<>> THEN "" ELSE Head(good)
         IN  IF sourceWorker = ""
             THEN [p EXCEPT !.failedAt = "noSource"]
             ELSE planChunks_firstGood(job, data,
                      planDestinations(data, p, chunk, sourceWorker,
                          chunk2numReplicas2create(job, chunk)),
                      Tail(chunks))

\* the planner's loop over the chunks that need replicas
RECURSIVE planChunks(_, _, _, _)
planChunks(job, data, p, chunks) ==
    IF chunks = <<>> \/ p.failedAt # "none" THEN p
    ELSE LET chunk == Head(chunks)
             sourceWorker ==
                 FirstMin(SelectSeq(isGoodEntries(data, chunk),
                              LAMBDA w : data.replicas[chunk][w] = "good"),
                          p.sourceWorkerAllocations)
         IN  IF sourceWorker = ""
             THEN [p EXCEPT !.failedAt = "noSource"]
             ELSE planChunks(job, data,
                      planDestinations(data, p, chunk, sourceWorker,
                          chunk2numReplicas2create(job, chunk)),
                      Tail(chunks))

\* load := numAtDest[destWorker] + numAtSrc[srcWorker] of planned job k
load(job, k) ==
    Cardinality({a \in 1..Len(job.activeJobs) :
        job.plan[job.activeJobs[a]].destinationWorker
            = job.plan[k].destinationWorker})
  + Cardinality({a \in 1..Len(job.activeJobs) :
        job.plan[job.activeJobs[a]].sourceWorker
            = job.plan[k].sourceWorker})

\* the sequence s without its element at position i
RemoveAt(s, i) == SubSeq(s, 1, i - 1) \o SubSeq(s, i + 1, Len(s))

\* the first job of _jobs, whatever its load
leastLoaded_first(job) == 1

\* the scan of _jobs with 'load <= minLoad': the position of the last of the
\* jobs with the least load
leastLoaded(job) ==
    CHOOSE i \in 1..Len(job.jobs) :
        /\ \A j \in 1..Len(job.jobs) :
               load(job, job.jobs[i]) <= load(job, job.jobs[j])
        /\ \A j \in (i + 1)..Len(job.jobs) :
               load(job, job.jobs[j]) > load(job, job.jobs[i])

\* the loop of launchNextJobs: up to numJobs times, start the planned job
\* with the least load.  Field dispatched records each start with the lists
\* _jobs and _activeJobs it found.
RECURSIVE launchNextJobsFrom(_, _)
launchNextJobsFrom(job, numJobs) ==
    IF numJobs = 0 \/ job.jobs = <<>> THEN job
    ELSE LET i == leastLoaded(job)
             k == job.jobs[i]
         IN  launchNextJobsFrom(
                 [job EXCEPT !.activeJobs = Append(@, k),
                             !.jobs = RemoveAt(@, i),
                             !.child[k] = "IN_PROGRESS",
                             !.dispatched = Append(@,
                                 [job |-> k, jobs |-> job.jobs,
                                  activeJobs |-> job.activeJobs,
                                  child |-> job.child])],
                 numJobs - 1)

\* ReplicateJob::launchNextJobs
launchNextJobs(job, numJobs) ==
    launchNextJobsFrom([job EXCEPT !.dispatched = <<>>], numJobs)

numJobsLaunched(before, after) == Len(before.jobs) - Len(after.jobs)

\* ReplicateJob::startImpl
startImpl(job) ==
    [job EXCEPT !.findAllJob = "IN_PROGRESS", !.state = "IN_PROGRESS"]

\* ReplicateJob::cancelImpl
cancelImpl(job) ==
    [job EXCEPT
        !.findAllJob = IF @ = "IN_PROGRESS" THEN "FINISHED" ELSE @,
        !.jobs = <<>>,
        !.child = [k \in 1..Len(job.child) |->
                      IF \E a \in 1..Len(job.activeJobs) : job.activeJobs[a] = k
                      THEN "CANCELLED" ELSE job.child[k]],
        !.activeJobs = <<>>,
        !.numLaunched = 0,
        !.numFinished = 0,
        !.numSuccess = 0]

\* Job::cancel: the final state CANCELLED, the cancellation of the children,
\* the notification of the owner
Job_cancel(job) ==
    IF job.state = "FINISHED" THEN job
    ELSE cancelImpl(Job_finish(job, "CANCELLED"))

\* the first batch sized by the number of planned jobs
launchPlan_all(job) ==
    IF job.jobs = <<>> THEN Job_finish(job, "SUCCESS")
    ELSE LET numJobs == Len(job.jobs) * job.workerNumProcessingThreads
             launched == launchNextJobs(job, numJobs)
         IN  IF numJobsLaunched(job, launched) # 0
             THEN [launched EXCEPT
                      !.numLaunched = @ + numJobsLaunched(job, launched)]
             ELSE Job_finish([job EXCEPT !.jobs = <<>>,
                                         !.failedAt = "launch"], "FAILED")

\* what onPrecursorJobFinish does when the plan has been made
launchPlan(job) ==
    IF job.jobs = <<>> THEN Job_finish(job, "SUCCESS")
    ELSE LET destinationWorkers ==
                 {job.plan[job.jobs[i]].destinationWorker :
                      i \in 1..Len(job.jobs)}
             numJobs == Cardinality(destinationWorkers)
                            * job.workerNumProcessingThreads
             launched == launchNextJobs(job, numJobs)
         IN  IF numJobsLaunched(job, launched) # 0
             THEN [launched EXCEPT
                      !.numLaunched = @ + numJobsLaunched(job, launched)]
             ELSE Job_finish([job EXCEPT !.jobs = <<>>,
                                         !.failedAt = "launch"], "FAILED")

onPrecursorJobFinish_skipChunk(job) ==
    IF job.state = "FINISHED" THEN job
    ELSE Job_finish(job, "SUCCESS")

\* ReplicateJob::onPrecursorJobFinish
onPrecursorJobFinish(job) ==
    LET data == job.replicaData
    IN  IF job.state = "FINISHED" THEN job
        ELSE IF data.extendedState # "SUCCESS"
        THEN Job_finish([job EXCEPT !.failedAt = "precursor"], "FAILED")
        ELSE IF whiteList(data) = <<>>
        THEN Job_finish([job EXCEPT !.failedAt = "noWorkers"], "FAILED")
        ELSE LET p == planChunks(job, data,
                          [ jobs |-> <<>>,
                            worker2occupancy |-> worker2occupancy(data),
                            sourceWorkerAllocations |->
                                [w \in WorkerNames |-> 0],
                            failedAt |-> "none" ],
                          SelectSeq(ChunkNumbers, LAMBDA c :
                              chunk2numReplicas2create(job, c) > 0))
                 planned == [job EXCEPT
                                !.plan = p.jobs,
                                !.child = [k \in 1..Len(p.jobs) |-> "CREATED"],
                                !.jobs = [k \in 1..Len(p.jobs) |-> k],
                                !.failedAt = p.failedAt]
             IN  IF p.failedAt # "none" THEN Job_finish(planned, "FAILED")
                 ELSE launchPlan(planned)

onCreateJobFinish_firstDone(job, k) ==
    IF job.state = "FINISHED" THEN job
    ELSE Job_finish(job, IF job.child[k] = "SUCCESS" THEN "SUCCESS"
                         ELSE "FAILED")

\* ReplicateJob::onCreateJobFinish for replica-creation job k
onCreateJobFinish(job, k) ==
    LET removed == [job EXCEPT !.activeJobs =
                        SelectSeq(@, LAMBDA a : a # k)]
    IN  IF job.state = "FINISHED" THEN removed
        ELSE LET counted == [removed EXCEPT
                                !.numFinished = @ + 1,
                                !.numSuccess =
                                    IF job.child[k] = "SUCCESS"
                                    THEN @ + 1 ELSE @]
                 launched == launchNextJobs(counted, 1)
             IN  IF numJobsLaunched(counted, launched) # 0
                 THEN [launched EXCEPT !.numLaunched =
                          @ + numJobsLaunched(counted, launched)]
                 ELSE IF counted.numFinished = counted.numLaunched
                 THEN Job_finish(counted,
                          IF counted.numSuccess = counted.numLaunched
                          THEN "SUCCESS" ELSE "FAILED")
                 ELSE counted

\* a replica-creation job comes to its end and notifies its parent
childFinished(job, k, extendedState) ==
    onCreateJobFinish([job EXCEPT !.child[k] = extendedState], k)

\* the inputs of the model: results with at most MaxReplicas replicas
SomeFindAllJobResults ==
    {d \in FindAllJobResults :
        Cardinality({cw \in Chunks \X WorkerNames :
            d.replicas[cw[1]][cw[2]] # "none"}) <= MaxReplicas}

InitReplicate ==
    /\ \E data \in SomeFindAllJobResults, n \in ReplicationLevels,
          t \in ProcessingThreads :
          rj = NewReplicateJob(data, n, t)
    /\ IdleRequest
    /\ IdleDb
    /\ ssi = IdleSsiRequest
    /\ qr = IdleQueryRequest
    /\ IdleScheduler
    /\ IdleControlThread
    /\ IdleConnection
    /\ IdleAnalysis

\* the owner starts the job
StartJob ==
    /\ rj.state = "CREATED"
    /\ rj' = startImpl(rj)
    /\ UNCHANGED othersReplicate

\* the owner cancels the job
CancelJob ==
    /\ rj' = Job_cancel(rj)
    /\ UNCHANGED othersReplicate

\* the precursor FindAllJob finishes
PrecursorJobFinish ==
    /\ rj.findAllJob = "IN_PROGRESS"
    /\ rj' = onPrecursorJobFinish([rj EXCEPT !.findAllJob = "FINISHED"])
    /\ UNCHANGED othersReplicate

\* replica-creation job k finishes
CreateJobFinish(k) ==
    /\ k <= Len(rj.child)
    /\ rj.child[k] = "IN_PROGRESS"
    /\ \E es \in {"SUCCESS", "FAILED"} : rj' = childFinished(rj, k, es)
    /\ UNCHANGED othersReplicate

NextReplicate ==
    \/ StartJob
    \/ CancelJob
    \/ PrecursorJobFinish
    \/ \E k \in ChildIds : CreateJobFinish(k)

SpecReplicate == InitReplicate /\ [][NextReplicate]_vars

(***************************************************************************)
(* Claims about ReplicateJob.                                              *)
(***************************************************************************)
\* the replica-creation jobs that have been started
Launched(job) == {k \in 1..Len(job.child) : job.child[k] # "CREATED"}

\* a chunk that needs replicas and has no good replica on any worker
NoGoodReplica(job) ==
    \E c \in Chunks :
        /\ chunk2numReplicas2create(job, c) > 0
        /\ \A w \in WorkerNames : job.replicaData.replicas[c][w] # "good"

PrecursorDone(job) ==
    job.findAllJob = "FINISHED" /\ job.extendedState # "CANCELLED"

SuccessIffAllCreated ==
    (rj.state = "FINISHED" /\ rj.extendedState # "CANCELLED"
        /\ Launched(rj) # {})
        => /\ rj.extendedState \in {"SUCCESS", "FAILED"}
           /\ rj.extendedState = "SUCCESS"
                  <=> \A k \in Launched(rj) : rj.child[k] = "SUCCESS"

\* C17 witness: two jobs were launched and one of them failed
MixedOutcomeSeen ==
    /\ rj.state = "FINISHED"
    /\ rj.extendedState = "FAILED"
    /\ \E k \in Launched(rj) : rj.child[k] = "SUCCESS"
    /\ \E k \in Launched(rj) : rj.child[k] = "FAILED"

\* the good chunks of worker w plus the replicas that the decisions before
\* the k-th have planned for it
Occupancy(job, k, w) ==
    Cardinality({c \in Chunks : job.replicaData.replicas[c][w] = "good"})
  + Cardinality({j \in 1..(k - 1) : job.plan[j].destinationWorker = w})

\* the workers not reported as failed that hold no replica of the chunk of
\* the k-th decision
Eligible(job, k) ==
    {w \in WorkerNames :
        /\ job.replicaData.workers[w]
        /\ job.replicaData.replicas[job.plan[k].chunk][w] = "none"}

\* C27: every destination of the plan is a worker that was not reported as
\* failed, holds no replica of the chunk, and has the fewest good chunks among
\* such workers at the moment of the decision, the replicas planned for it by
\* earlier decisions counted in.
DestinationIsLeastOccupied ==
    \A k \in 1..Len(rj.plan) :
        LET d == rj.plan[k].destinationWorker
        IN  /\ d \in Eligible(rj, k)
            /\ \A w \in Eligible(rj, k) :
                   Occupancy(rj, k, d) <= Occupancy(rj, k, w)

\* C27 witness: a worker was chosen again with a planned replica counted for
\* it, ahead of a worker with more good chunks
PlannedReplicaCounted ==
    \E k \in 1..Len(rj.plan) :
        LET d == rj.plan[k].destinationWorker
        IN  /\ Occupancy(rj, k, d) > Occupancy(rj, 1, d)
            /\ \E w \in Eligible(rj, k) :
                   Occupancy(rj, k, w) > Occupancy(rj, k, d)

\* the position in the plan of the first replica of the chunk of the k-th
\* entry: the source of a chunk is chosen before its replicas are planned
ChunkStart(job, k) ==
    CHOOSE j \in 1..k :
        /\ job.plan[j].chunk = job.plan[k].chunk
        /\ \A i \in 1..(j - 1) : job.plan[i].chunk # job.plan[k].chunk

\* the replicas planned before the k-th entry with worker w as the source
Allocations(job, k, w) ==
    Cardinality({j \in 1..(k - 1) : job.plan[j].sourceWorker = w})

GoodHolders(job, chunk) ==
    {w \in WorkerNames : job.replicaData.replicas[chunk][w] = "good"}

\* C28: the source of every chunk of the plan holds a good replica of the
\* chunk and has, when it is chosen, the least number of planned replicas
\* among the workers with a good replica of the chunk.
SourceIsLeastAllocated ==
    \A k \in 1..Len(rj.plan) :
        LET s == rj.plan[k].sourceWorker
            at == ChunkStart(rj, k)
        IN  /\ s \in GoodHolders(rj, rj.plan[k].chunk)
            /\ \A w \in GoodHolders(rj, rj.plan[k].chunk) :
                   Allocations(rj, at, s) <= Allocations(rj, at, w)

\* C28 witness: a chunk got a source other than a worker with a good replica
\* of it that had been the source of earlier replicas
BusySourceAvoided ==
    \E k \in 1..Len(rj.plan) :
        \E w \in GoodHolders(rj, rj.plan[k].chunk) :
            Allocations(rj, ChunkStart(rj, k), w)
                > Allocations(rj, ChunkStart(rj, k), rj.plan[k].sourceWorker)

\* C29: the replica-creation jobs of one job that are active at the same
\* time are never more than (number of workers) * workerNumProcessingThreads.
ActiveJobsBounded ==
    /\ Len(rj.activeJobs)
           <= Len(ConfigWorkers) * rj.workerNumProcessingThreads
    /\ Cardinality({k \in 1..Len(rj.child) : rj.child[k] = "IN_PROGRESS"})
           <= Len(ConfigWorkers) * rj.workerNumProcessingThreads

\* C29 witness: as many jobs as the bound allows are active and another one
\* waits in _jobs
ActiveJobsAtBound ==
    /\ rj.workerNumProcessingThreads > 0
    /\ Len(rj.activeJobs)
           = Len(ConfigWorkers) * rj.workerNumProcessingThreads
    /\ rj.jobs # <<>>

\* numAtDest[destinationWorker] + numAtSrc[sourceWorker] of planned job k,
\* counted over the jobs of list active
LoadOver(job, active, k) ==
    Cardinality({a \in 1..Len(active) :
        job.plan[active[a]].destinationWorker
            = job.plan[k].destinationWorker})
  + Cardinality({a \in 1..Len(active) :
        job.plan[active[a]].sourceWorker = job.plan[k].sourceWorker})

\* C30: every job started by launchNextJobs has, when it is started, the
\* least load among the planned jobs not yet started, the load counted over
\* exactly the jobs in progress at that moment.
DispatchedHasLeastLoad ==
    \A e \in 1..Len(rj.dispatched) :
        LET d == rj.dispatched[e]
        IN  /\ {d.activeJobs[a] : a \in 1..Len(d.activeJobs)}
                   = {k \in 1..Len(d.child) : d.child[k] = "IN_PROGRESS"}
            /\ \A j \in 1..Len(d.jobs) :
                   LoadOver(rj, d.activeJobs, d.job)
                       <= LoadOver(rj, d.activeJobs, d.jobs[j])

\* C30 witness: a job was started ahead of the first job of _jobs, whose load
\* was greater
LighterJobPreferred ==
    \E e \in 1..Len(rj.dispatched) :
        LET d == rj.dispatched[e]
        IN  LoadOver(rj, d.activeJobs, d.jobs[1])
                > LoadOver(rj, d.activeJobs, d.job)

\* the entries of the plan for chunk c
PlannedFor(job, c) == {k \in 1..Len(job.plan) : job.plan[k].chunk = c}

\* C31: only good replicas count towards the replication level: once the
\* precursor job has been processed, a chunk with g good replicas (g > 0) and
\* level n > g has n - g replicas planned, each on a worker that holds no
\* replica of the chunk, or the job is FINISHED with FAILED.
OnlyGoodReplicasCount ==
    (PrecursorDone(rj) /\ rj.replicaData.extendedState = "SUCCESS")
        => \A c \in Chunks :
              LET g == Cardinality(GoodHolders(rj, c))
              IN  (g > 0 /\ rj.numReplicas > g)
                      => \/ rj.state = "FINISHED" /\ rj.extendedState = "FAILED"
                         \/ /\ Cardinality(PlannedFor(rj, c))
                                   = rj.numReplicas - g
                            /\ \A k \in PlannedFor(rj, c) :
                                   rj.replicaData.replicas[c]
                                       [rj.plan[k].destinationWorker] = "none"

\* C35: the replicas planned for one chunk have pairwise distinct
\* destination workers, and no destination is the source worker of the chunk.
DestinationsAreDistinct ==
    \A k \in 1..Len(rj.plan) :
        /\ rj.plan[k].destinationWorker # rj.plan[k].sourceWorker
        /\ \A j \in PlannedFor(rj, rj.plan[k].chunk) :
               j # k => rj.plan[j].destinationWorker
                            # rj.plan[k].destinationWorker

(***************************************************************************)
(* replica::ControlThread: launch<ReplicateJob>() and track()              *)
(*                                                                         *)
(* The thread of the activity is in run() ("run"), waits in blockPost.wait *)
(* inside track ("track"), or has left run() with ControlThreadStopped     *)
(* ("stopped").  A launch creates one ReplicateJob per database family;    *)
(* the callback of each job increments _numFinishedJobs.  The fields       *)
(* ended, stopAt, wakeUps, unfinished and afterStop record how the last    *)
(* track ended and what happened around a stop request; they are kept for  *)
(* the statement of the properties.                                        *)
(***************************************************************************)
Families == {"family-1", "family-2"}

\* the result of the precursor job of a launched job: one replica of chunk 1
\* on worker A, good or not
LaunchInput(s) ==
    [ extendedState |-> "SUCCESS",
      replicas |-> [c \in Chunks |-> [w \in WorkerNames |->
                       IF c = 1 /\ w = "A" THEN s ELSE "none"]],
      workers |-> [w \in WorkerNames |-> TRUE] ]

NewControlThread ==
    [ pc              |-> "run",
      stopRequested   |-> FALSE,
      numFinishedJobs |-> 0,
      jobs            |-> [f \in Families |-> NotCreated],
      numLaunches     |-> 0,
      ended           |-> "none",
      stopAt          |-> "none",
      wakeUps         |-> 0,
      unfinished      |-> FALSE,
      afterStop       |-> "none" ]

\* the state of family f's job becomes job; its callback, if it was called,
\* increments _numFinishedJobs
withJob(c, f, job) ==
    [c EXCEPT !.jobs[f] = job,
              !.numFinishedJobs = @ + (job.numCallbacks
                                         - c.jobs[f].numCallbacks)]

\* for (auto&& job: jobs) job->cancel();
RECURSIVE cancelJobs(_, _)
cancelJobs(c, fs) ==
    IF fs = {} THEN c
    ELSE LET f == CHOOSE f \in fs : TRUE
         IN  cancelJobs(withJob(c, f, Job_cancel(c.jobs[f])), fs \ {f})

track_noWait(c) == [c EXCEPT !.pc = "run", !.ended = "finished"]

track_noCancel(c) ==
    IF c.numFinishedJobs = Cardinality(Families)
    THEN [c EXCEPT !.pc = "run", !.ended = "finished"]
    ELSE IF c.stopRequested
    THEN [c EXCEPT !.pc = "stopped", !.ended = "aborted"]
    ELSE [c EXCEPT !.pc = "track"]

\* ControlThread::track: the test of the loop, then the end of the tracking
\* or the next blockPost.wait
track(c) ==
    IF c.numFinishedJobs = Cardinality(Families)
    THEN [c EXCEPT !.pc = "run", !.ended = "finished"]
    ELSE IF c.stopRequested
    THEN [cancelJobs(c, Families) EXCEPT !.pc = "stopped",
                                         !.ended = "aborted"]
    ELSE [c EXCEPT !.pc = "track"]

\* ControlThread::launch: create and start the jobs, then track them
launch(c, inputs, levels) ==
    track([c EXCEPT
        !.numFinishedJobs = 0,
        !.jobs = [f \in Families |->
                     startImpl(NewReplicateJob(inputs[f], levels[f], 1))],
        !.numLaunches = @ + 1,
        !.ended = "none"])

\* track after blockPost.wait has returned
wakeUp(c) ==
    LET t == track(c)
    IN  IF c.stopAt = "tracking" /\ c.wakeUps = 0
        THEN [t EXCEPT !.wakeUps = 1,
                       !.unfinished =
                           c.numFinishedJobs # Cardinality(Families),
                       !.afterStop = t.ended]
        ELSE t

\* ControlThread::stop raises the flag that stopRequested() reads
requestStop(c) ==
    [c EXCEPT !.stopRequested = TRUE,
              !.stopAt = IF c.pc = "track"
                            /\ c.numFinishedJobs # Cardinality(Families)
                         THEN "tracking" ELSE "other"]

InitControlThread ==
    /\ ct = NewControlThread
    /\ IdleRequest
    /\ IdleDb
    /\ ssi = IdleSsiRequest
    /\ qr = IdleQueryRequest
    /\ IdleScheduler
    /\ IdleReplicate
    /\ IdleConnection
    /\ IdleAnalysis

\* run() of the activity calls launch<ReplicateJob>()
Launch ==
    /\ ct.pc = "run"
    /\ ct.numLaunches < MaxLaunches
    /\ \E s \in [Families -> {"good", "bad"}],
          levels \in [Families -> ReplicationLevels] :
          ct' = launch(ct, [f \in Families |-> LaunchInput(s[f])], levels)
    /\ UNCHANGED othersControlThread

\* the thread wakes up in track
TrackWakeUp ==
    /\ ct.pc = "track"
    /\ ct' = wakeUp(ct)
    /\ UNCHANGED othersControlThread

\* the owner of the activity asks it to stop
RequestStop ==
    /\ ~ct.stopRequested
    /\ ct.numLaunches > 0
    /\ ct' = requestStop(ct)
    /\ UNCHANGED othersControlThread

\* the precursor job of family f's job finishes
LaunchedPrecursorJobFinish(f) ==
    /\ ct.numLaunches > 0
    /\ ct.jobs[f].findAllJob = "IN_PROGRESS"
    /\ ct' = withJob(ct, f, onPrecursorJobFinish(
                 [ct.jobs[f] EXCEPT !.findAllJob = "FINISHED"]))
    /\ UNCHANGED othersControlThread

\* replica-creation job k of family f's job finishes
LaunchedCreateJobFinish(f, k) ==
    /\ ct.numLaunches > 0
    /\ k <= Len(ct.jobs[f].child)
    /\ ct.jobs[f].child[k] = "IN_PROGRESS"
    /\ \E es \in {"SUCCESS", "FAILED"} :
          ct' = withJob(ct, f, childFinished(ct.jobs[f], k, es))
    /\ UNCHANGED othersControlThread

NextControlThread ==
    \/ Launch
    \/ TrackWakeUp
    \/ RequestStop
    \/ \E f \in Families : LaunchedPrecursorJobFinish(f)
    \/ \E f \in Families, k \in ChildIds : LaunchedCreateJobFinish(f, k)

SpecControlThread == InitControlThread /\ [][NextControlThread]_vars

(***************************************************************************)
(* Claims about ControlThread.                                             *)
(***************************************************************************)
AllJobsFinished ==
    \A f \in Families : ct.jobs[f].state = "FINISHED"

\* C14 as stated: a stop requested while track waits for unfinished jobs
\* makes track cancel the jobs and raise ControlThreadStopped at its next
\* wake-up.
StopDuringTrackRaises ==
    (ct.stopAt = "tracking" /\ ct.wakeUps >= 1)
        => ct.afterStop = "aborted"

\* C14: at the first wake-up of track after a stop request made while it
\* waited for unfinished jobs, track ends: if some job is still unfinished
\* it cancels every job and raises ControlThreadStopped; if all jobs have
\* finished in between it returns normally.
StopSeenAtNextWakeUp ==
    (ct.stopAt = "tracking" /\ ct.wakeUps >= 1)
        => /\ ct.afterStop = IF ct.unfinished THEN "aborted" ELSE "finished"
           /\ ct.pc # "track"
           /\ ct.afterStop = "aborted" => AllJobsFinished /\ ct.pc = "stopped"

\* C14 witness: track cancelled a job and raised ControlThreadStopped
TrackAbortedSeen ==
    /\ ct.stopAt = "tracking"
    /\ ct.afterStop = "aborted"
    /\ \E f \in Families : ct.jobs[f].extendedState = "CANCELLED"

\* C15: launch returns normally only when every job of the launch has
\* finished, and a job that was not cancelled is finished and has notified
\* its owner only when every replica-creation job it launched has finished.
CompletionAfterLastChild ==
    /\ ct.ended = "finished" => AllJobsFinished
    /\ \A f \in Families :
           ct.numLaunches > 0 =>
               /\ ct.jobs[f].numCallbacks > 0 => ct.jobs[f].state = "FINISHED"
               /\ (ct.jobs[f].state = "FINISHED"
                      /\ ct.jobs[f].extendedState # "CANCELLED")
                      => \A k \in Launched(ct.jobs[f]) :
                             ct.jobs[f].child[k] # "IN_PROGRESS"

\* C15 witness: launch returned after a job with two replica-creation jobs
LaunchReturnedSeen ==
    /\ ct.ended = "finished"
    /\ \E f \in Families : Cardinality(Launched(ct.jobs[f])) >= 2

(***************************************************************************)
(* replica::database::mysql::Connection::execute(script, maxReconnects,    *)
(* timeoutSec)                                                             *)
(*                                                                         *)
(* execute is "idle" before the call, in "script" while the script runs,   *)
(* and ends in "returned" or "thrown".  The clock counts the seconds since *)
(* beginTimeMillisec.                                                      *)
(***************************************************************************)
\* Configuration::databaseMaxReconnects()
DatabaseMaxReconnects == {1, 2}

\* Configuration::databaseConnectTimeoutSec()
DatabaseConnectTimeoutSec == {1}

\* what a failed query of the script reports through mysql_errno
Errnos == {"ER_DUP_ENTRY", "CR_SERVER_GONE_ERROR", "ER_PARSE_ERROR"}

NewConnection(connectTimeoutSec, maxReconnects, timeoutSec, cfgMax, cfgTimeout) ==
    [ pc                     |-> "idle",
      connectTimeoutSec      |-> connectTimeoutSec,
      maxReconnects          |-> maxReconnects,
      timeoutSec             |-> timeoutSec,
      effectiveMaxReconnects |->
          IF maxReconnects # 0 THEN maxReconnects ELSE cfgMax,
      effectiveTimeoutSec    |->
          IF timeoutSec # 0 THEN timeoutSec ELSE cfgTimeout,
      numReconnects          |-> 0,
      numRuns                |-> 0,
      elapsedSec             |-> 0,
      thrown                 |-> "none" ]

\* Connection::processLastError: the exception it throws; reconnect tells
\* whether connect() succeeds before its own timeout
processLastError(c, errno, reconnect) ==
    CASE errno = "ER_DUP_ENTRY" -> "DuplicateKeyError"
      [] errno = "CR_SERVER_GONE_ERROR" ->
             IF c.connectTimeoutSec > 0
             THEN IF reconnect THEN "Reconnected" ELSE "ConnectTimeout"
             ELSE "ConnectError"
      [] OTHER -> "Error"

\* execute up to the first call of the script
execute(c) == [c EXCEPT !.pc = "script", !.numRuns = 1]

throw(c, ex) == [c EXCEPT !.pc = "thrown", !.thrown = ex]

caught_noLimit(c) ==
    LET c1 == [c EXCEPT !.numReconnects = @ + 1]
    IN  IF c1.elapsedSec > c1.effectiveTimeoutSec
        THEN throw(c1, "ConnectTimeout")
        ELSE [c1 EXCEPT !.numRuns = @ + 1]

\* the handler of Reconnected, the test of the timer, and the next call of
\* the script
caught(c) ==
    LET c1 == [c EXCEPT !.numReconnects = @ + 1]
    IN  IF c1.numReconnects > c1.effectiveMaxReconnects
        THEN throw(c1, "MaxReconnectsExceeded")
        ELSE IF c1.elapsedSec > c1.effectiveTimeoutSec
        THEN throw(c1, "ConnectTimeout")
        ELSE [c1 EXCEPT !.numRuns = @ + 1]

\* the script ends with exception ex ("none": it returns)
scriptEnds(c, ex) ==
    IF ex = "none" THEN [c EXCEPT !.pc = "returned"]
    ELSE IF ex = "Reconnected" THEN caught(c)
    ELSE throw(c, ex)

InitConnection ==
    /\ \E connectTimeoutSec \in {0, 1}, maxReconnects \in 0..MaxReconnects,
          timeoutSec \in {0, 1}, cfgMax \in DatabaseMaxReconnects,
          cfgTimeout \in DatabaseConnectTimeoutSec :
          conn = NewConnection(connectTimeoutSec, maxReconnects, timeoutSec,
                               cfgMax, cfgTimeout)
    /\ IdleRequest
    /\ IdleDb
    /\ ssi = IdleSsiRequest
    /\ qr = IdleQueryRequest
    /\ IdleScheduler
    /\ IdleControlThread
    /\ IdleReplicate
    /\ IdleAnalysis

\* a client calls execute(script, maxReconnects, timeoutSec)
Execute ==
    /\ conn.pc = "idle"
    /\ conn' = execute(conn)
    /\ UNCHANGED othersConnection

\* the script returns
ScriptReturns ==
    /\ conn.pc = "script"
    /\ conn' = scriptEnds(conn, "none")
    /\ UNCHANGED othersConnection

\* a query of the script fails
ScriptFails ==
    /\ conn.pc = "script"
    /\ \E errno \in Errnos, reconnect \in BOOLEAN :
          conn' = scriptEnds(conn, processLastError(conn, errno, reconnect))
    /\ UNCHANGED othersConnection

\* a second passes while the script runs
Tick ==
    /\ conn.pc = "script"
    /\ conn.elapsedSec < MaxElapsedSec
    /\ conn' = [conn EXCEPT !.elapsedSec = @ + 1]
    /\ UNCHANGED othersConnection

NextConnection ==
    \/ Execute
    \/ ScriptReturns
    \/ ScriptFails
    \/ Tick

SpecConnection == InitConnection /\ [][NextConnection]_vars

(***************************************************************************)
(* Claims about Connection::execute.                                       *)
(***************************************************************************)
\* C18 as stated: the script runs at most maxReconnects + 1 times.
RunsAtMostMaxReconnectsPlusOne ==
    conn.numRuns <= conn.maxReconnects + 1

\* C18: the script runs at most n + 1 times, where n is maxReconnects, or
\* Configuration::databaseMaxReconnects() when maxReconnects is 0; after n + 1
\* runs interrupted by a reconnect MaxReconnectsExceeded is thrown and the
\* script is not run again.
RunsAtMostEffectiveMaxPlusOne ==
    /\ conn.numRuns <= conn.effectiveMaxReconnects + 1
    /\ conn.numReconnects > conn.effectiveMaxReconnects
           => /\ conn.pc = "thrown"
              /\ conn.thrown = "MaxReconnectsExceeded"
              /\ conn.numRuns = conn.effectiveMaxReconnects + 1
    /\ conn.thrown = "MaxReconnectsExceeded"
           => conn.numReconnects = conn.effectiveMaxReconnects + 1

\* C18 witness: MaxReconnectsExceeded after a call with maxReconnects = 0
DefaultLimitExceededSeen ==
    /\ conn.thrown = "MaxReconnectsExceeded"
    /\ conn.maxReconnects = 0
    /\ conn.numRuns >= 2


(***************************************************************************)
(* query::ColumnRef                                                        *)
(*                                                                         *)
(* Two column references a and b are given; a.matches(b) and b.matches(a)  *)
(* are evaluated in either order.  A field is a string, "" when empty.     *)
(***************************************************************************)
DbNames == {"", "LSST", "SDSS"}

TableNames == {"", "Object", "Source"}

ColumnNames == {"", "ra", "decl"}

ColumnRefs == [db : DbNames, table : TableNames, column : ColumnNames]

empty(str) == str = ""

\* only an empty field of the left side is skipped
matches_lhsWildcard(this, rhs) ==
    IF empty(this.column) \/ empty(rhs.column) THEN FALSE
    ELSE IF empty(this.table) /\ ~empty(this.db) THEN FALSE
    ELSE IF empty(rhs.table) /\ ~empty(rhs.db) THEN FALSE
    ELSE IF ~empty(this.db) /\ this.db # rhs.db THEN FALSE
    ELSE IF ~empty(this.table) /\ this.table # rhs.table THEN FALSE
    ELSE IF this.column # rhs.column THEN FALSE
    ELSE TRUE

matches(this, rhs) ==
    IF empty(this.column) \/ empty(rhs.column) THEN FALSE
    ELSE IF empty(this.table) /\ ~empty(this.db) THEN FALSE
    ELSE IF empty(rhs.table) /\ ~empty(rhs.db) THEN FALSE
    ELSE IF (~empty(this.db) \/ ~empty(rhs.db)) /\ this.db # rhs.db THEN FALSE
    ELSE IF (~empty(this.table) \/ ~empty(rhs.table)) /\ this.table # rhs.table
         THEN FALSE
    ELSE IF this.column # rhs.column THEN FALSE
    ELSE TRUE

IdleDispatch ==
    /\ IdleRequest
    /\ IdleDb
    /\ ssi = IdleSsiRequest
    /\ qr = IdleQueryRequest

InitColumnRef ==
    /\ \E a \in ColumnRefs, b \in ColumnRefs :
          cref = [pc |-> "created", a |-> a, b |-> b, called |-> {},
                  ab |-> FALSE, ba |-> FALSE]
    /\ IdleDispatch
    /\ IdleController
    /\ IdleBoolTerm
    /\ IdleScanTable
    /\ IdleListener
    /\ IdleRegistry
    /\ IdleTransaction

\* a.matches(b)
MatchesAB ==
    /\ "ab" \notin cref.called
    /\ cref' = [cref EXCEPT !.called = @ \cup {"ab"},
                            !.ab = matches(cref.a, cref.b)]
    /\ UNCHANGED othersColumnRef

\* b.matches(a)
MatchesBA ==
    /\ "ba" \notin cref.called
    /\ cref' = [cref EXCEPT !.called = @ \cup {"ba"},
                            !.ba = matches(cref.b, cref.a)]
    /\ UNCHANGED othersColumnRef

NextColumnRef ==
    \/ MatchesAB
    \/ MatchesBA

SpecColumnRef == InitColumnRef /\ [][NextColumnRef]_vars

(***************************************************************************)
(* Claims about query::ColumnRef.                                          *)
(***************************************************************************)

\* C22: ColumnRef::matches is symmetric: whenever a.matches(b) holds,
\* b.matches(a) holds as well.
MatchesIsSymmetric ==
    (cref.called = {"ab", "ba"} /\ cref.ab) => cref.ba

\* C22 witness: both directions have been evaluated on two fully qualified
\* references and a.matches(b) holds.
MatchingPairSeen ==
    /\ cref.called = {"ab", "ba"}
    /\ cref.ab
    /\ ~empty(cref.a.db) /\ ~empty(cref.b.table)

\* what C23 says of two references: an empty db or table on either side
\* matches any value of the other side, the columns are equal and not empty,
\* and a reference with an empty table and a non-empty db matches nothing
WildcardMatch(a, b) ==
    /\ ~empty(a.column) /\ a.column = b.column
    /\ ~(empty(a.table) /\ ~empty(a.db))
    /\ ~(empty(b.table) /\ ~empty(b.db))
    /\ empty(a.db) \/ empty(b.db) \/ a.db = b.db
    /\ empty(a.table) \/ empty(b.table) \/ a.table = b.table

\* C23: matches treats an empty db or table field on either side as a
\* wildcard for that field of the other side (an unqualified column matches
\* table.column and db.table.column of the same column name), and a
\* reference whose table is empty and whose db is not matches nothing.
EmptyQualifierIsWildcard ==
    "ab" \in cref.called => (cref.ab <=> WildcardMatch(cref.a, cref.b))


(***************************************************************************)
(* query::BoolTerm, BoolFactorTerm and the predicates: clone() and         *)
(* operator==.                                                             *)
(*                                                                         *)
(* A term is a record with its class in field kind; a shared_ptr is the    *)
(* term it points to, or Null.  A ValueExpr is represented by its text.    *)
(***************************************************************************)
\* a null shared_ptr to a term, and to a ValueExpr
Null == [kind |-> "nullptr"]

NoValueExpr == "nullptr"

ValueExprs == {"ra", "1"}

ValueExprPtrs == ValueExprs \cup {NoValueExpr}

CompOps == {"EQUALS_OP", "LESS_THAN_OP"}

CompPredicates ==
    [kind : {"CompPredicate"}, left : ValueExprPtrs, op : CompOps,
     right : ValueExprPtrs]

NullPredicates ==
    [kind : {"NullPredicate"}, value : ValueExprPtrs, hasNot : BOOLEAN]

GenericPredicates == [kind : {"GenericPredicate"}]

BoolFactorTerms == CompPredicates \cup NullPredicates \cup GenericPredicates

SeqUpTo(S, n) == UNION {[1..k -> S] : k \in 0..n}

BoolFactorsOf(n) ==
    [kind : {"BoolFactor"}, terms : SeqUpTo(BoolFactorTerms, n),
     hasNot : BOOLEAN]

AndTerms ==
    [kind : {"AndTerm"}, terms : SeqUpTo(BoolFactorsOf(MaxTerms - 1), MaxTerms)]

BoolTerms == BoolFactorsOf(MaxTerms) \cup AndTerms

\* ValueExpr::clone
ValueExpr_clone(v) == v

CompPredicate_clone(t) ==
    [kind |-> "CompPredicate",
     left |-> IF t.left # NoValueExpr THEN ValueExpr_clone(t.left)
                              ELSE NoValueExpr,
     op |-> t.op,
     right |-> IF t.right # NoValueExpr THEN ValueExpr_clone(t.right)
                              ELSE NoValueExpr]

NullPredicate_clone(t) ==
    [kind |-> "NullPredicate",
     value |-> IF t.value # NoValueExpr THEN ValueExpr_clone(t.value)
                              ELSE NoValueExpr,
     hasNot |-> t.hasNot]

\* return BoolFactorTerm::Ptr();
GenericPredicate_clone(t) == Null

\* the virtual call p->clone() on a BoolFactorTerm
BoolFactorTerm_clone(t) ==
    CASE t.kind = "CompPredicate" -> CompPredicate_clone(t)
      [] t.kind = "NullPredicate" -> NullPredicate_clone(t)
      [] t.kind = "GenericPredicate" -> GenericPredicate_clone(t)

\* deepCopy: p ? p->clone() : Ptr()
deepCopyFactorTerm(p) == IF p # Null THEN BoolFactorTerm_clone(p) ELSE Null

BoolFactor_clone(t) ==
    [kind |-> "BoolFactor",
     terms |-> [k \in 1..Len(t.terms) |-> deepCopyFactorTerm(t.terms[k])],
     hasNot |-> t.hasNot]

RECURSIVE BoolTerm_clone(_)

deepCopy(p) == IF p # Null THEN BoolTerm_clone(p) ELSE Null

\* copyTerms<BoolTerm::PtrVector, deepCopy>(t->_terms, _terms)
AndTerm_clone(t) ==
    [kind |-> "AndTerm",
     terms |-> [k \in 1..Len(t.terms) |-> deepCopy(t.terms[k])]]

\* the virtual call p->clone() on a BoolTerm
BoolTerm_clone(t) ==
    CASE t.kind = "AndTerm" -> AndTerm_clone(t)
      [] t.kind = "BoolFactor" -> BoolFactor_clone(t)

\* util::ptrCompare<ValueExpr>: equal when both are null, or both are not
\* and the values are equal
ptrCompareValueExpr(lhs, rhs) ==
    IF lhs = NoValueExpr /\ rhs = NoValueExpr THEN TRUE
    ELSE IF lhs = NoValueExpr \/ rhs = NoValueExpr THEN FALSE
    ELSE lhs = rhs

CompPredicate_eq(this, rhs) ==
    IF rhs.kind # "CompPredicate" THEN FALSE
    ELSE /\ ptrCompareValueExpr(this.left, rhs.left)
         /\ this.op = rhs.op
         /\ ptrCompareValueExpr(this.right, rhs.right)

NullPredicate_eq(this, rhs) ==
    IF rhs.kind # "NullPredicate" THEN FALSE
    ELSE /\ this.hasNot = rhs.hasNot
         /\ ptrCompareValueExpr(this.value, rhs.value)

\* the virtual operator== of a BoolFactorTerm
BoolFactorTerm_eq(this, rhs) ==
    CASE this.kind = "CompPredicate" -> CompPredicate_eq(this, rhs)
      [] this.kind = "NullPredicate" -> NullPredicate_eq(this, rhs)
      [] this.kind = "GenericPredicate" -> rhs.kind = "GenericPredicate"

ptrCompareFactorTerm(lhs, rhs) ==
    IF lhs = Null /\ rhs = Null THEN TRUE
    ELSE IF lhs = Null \/ rhs = Null THEN FALSE
    ELSE BoolFactorTerm_eq(lhs, rhs)

BoolFactor_eq(this, rhs) ==
    IF rhs.kind # "BoolFactor" THEN FALSE
    ELSE IF this.hasNot # rhs.hasNot THEN FALSE
    ELSE /\ Len(this.terms) = Len(rhs.terms)
         /\ \A k \in 1..Len(this.terms) :
               ptrCompareFactorTerm(this.terms[k], rhs.terms[k])

RECURSIVE BoolTerm_eq(_, _)

ptrCompare(lhs, rhs) ==
    IF lhs = Null /\ rhs = Null THEN TRUE
    ELSE IF lhs = Null \/ rhs = Null THEN FALSE
    ELSE BoolTerm_eq(lhs, rhs)

\* util::vectorPtrCompare<BoolTerm>(_terms, rhsAndTerm->_terms)
AndTerm_eq(this, rhs) ==
    IF rhs.kind # "AndTerm" THEN FALSE
    ELSE /\ Len(this.terms) = Len(rhs.terms)
         /\ \A k \in 1..Len(this.terms) : ptrCompare(this.terms[k], rhs.terms[k])

\* the virtual operator== of a BoolTerm
BoolTerm_eq(this, rhs) ==
    CASE this.kind = "AndTerm" -> AndTerm_eq(this, rhs)
      [] this.kind = "BoolFactor" -> BoolFactor_eq(this, rhs)

InitBoolTerm ==
    /\ \E t \in BoolTerms :
          bt = [pc |-> "created", t |-> t, copy |-> Null,
                cloned |-> FALSE, compared |-> FALSE, equal |-> FALSE]
    /\ IdleDispatch
    /\ IdleController
    /\ IdleColumnRef
    /\ IdleScanTable
    /\ IdleListener
    /\ IdleRegistry
    /\ IdleTransaction

\* copy = t->clone()
Clone ==
    /\ bt.pc = "created"
    /\ ~bt.cloned
    /\ bt' = [bt EXCEPT !.copy = BoolTerm_clone(bt.t), !.cloned = TRUE]
    /\ UNCHANGED othersBoolTerm

\* *copy == *t
Compare ==
    /\ bt.pc = "created"
    /\ bt.cloned
    /\ ~bt.compared
    /\ bt' = [bt EXCEPT !.compared = TRUE,
                        !.equal = ptrCompare(bt.copy, bt.t)]
    /\ UNCHANGED othersBoolTerm

NextBoolTerm ==
    \/ Clone
    \/ Compare

SpecBoolTerm == InitBoolTerm /\ [][NextBoolTerm]_vars

(***************************************************************************)
(* Claims about BoolTerm::clone.                                           *)
(***************************************************************************)

\* the terms nested in a term: the predicates and factor terms of a
\* BoolFactor, the BoolFactors of an AndTerm and what is nested in them
NestedTerms(t) ==
    IF t.kind = "AndTerm"
    THEN {t.terms[k] : k \in 1..Len(t.terms)}
         \cup UNION {{f.terms[j] : j \in 1..Len(f.terms)} :
                        f \in {t.terms[k] : k \in 1..Len(t.terms)} \ {Null}}
    ELSE {t.terms[k] : k \in 1..Len(t.terms)}

\* C24: for every BoolTerm t, the predicates and factor terms nested in it
\* included, clone() returns a non-null deep copy that is structurally equal
\* to the original: clone(t) == t.
CloneEqualsOriginal ==
    bt.compared => /\ bt.copy # Null
                   /\ Null \notin NestedTerms(bt.copy)
                   /\ bt.equal


(***************************************************************************)
(* qana::ScanTablePlugin                                                   *)
(*                                                                         *)
(* The statement is given by what the plugin reads of it: the tables of    *)
(* its FROM list, in order, each a (db, table) pair; whether it has a      *)
(* WHERE clause and whether that refers to columns; whether the SELECT     *)
(* list refers to columns.  Which tables are partitioned is metadata.      *)
(***************************************************************************)
TableRefs == {<<"LSST", "Object">>, <<"LSST", "Source">>, <<"LSST", "Filter">>}

PartitionedTables == {<<"LSST", "Object">>, <<"LSST", "Source">>}

SelectStmts ==
    [fromList : SeqUpTo(TableRefs, MaxTableRefs),
     hasWhereClause : BOOLEAN, whereColumnRefs : BOOLEAN,
     selectColumnRefs : BOOLEAN]

scanThreshold == 2

Contains(list, entry) == \E k \in 1..Len(list) : list[k] = entry

\* getPartitioned::operator(): an entry not found so far is appended
getPartitioned(sList, tRef) ==
    IF Contains(sList, tRef) THEN sList ELSE Append(sList, tRef)

RECURSIVE filterPartitionedFrom(_, _)

filterPartitionedFrom(tList, list) ==
    IF tList = <<>> THEN list
    ELSE filterPartitionedFrom(Tail(tList), getPartitioned(list, Head(tList)))

filterPartitioned(tList) == filterPartitionedFrom(tList, <<>>)

findScanTables(stmt) ==
    LET hasWhereColumnRef == stmt.hasWhereClause /\ stmt.whereColumnRefs
        hasSelectColumnRef == stmt.selectColumnRefs
        hasSelectStar == FALSE
        hasSecondaryKey == FALSE
    IN  IF hasSelectColumnRef \/ hasSelectStar
        THEN IF hasSecondaryKey THEN <<>>
             ELSE filterPartitioned(stmt.fromList)
        ELSE IF hasWhereColumnRef THEN filterPartitioned(stmt.fromList)
        ELSE <<>>

applyLogical(p) ==
    [p EXCEPT !.scanTables = findScanTables(p.stmt),
              !.context.scanTables = findScanTables(p.stmt)]

applyFinal(p) ==
    IF p.context.chunkCount < scanThreshold
    THEN [p EXCEPT !.context.scanTables = <<>>]
    ELSE p

InitScanTable ==
    /\ \E stmt \in SelectStmts, chunkCount \in 0..MaxChunkCount :
          /\ (~stmt.hasWhereClause) => ~stmt.whereColumnRefs
          /\ scan = [pc |-> "prepared", stmt |-> stmt, scanTables |-> <<>>,
                     context |-> [chunkCount |-> chunkCount,
                                  scanTables |-> <<>>]]
    /\ IdleDispatch
    /\ IdleController
    /\ IdleColumnRef
    /\ IdleBoolTerm
    /\ IdleListener
    /\ IdleRegistry
    /\ IdleTransaction

ApplyLogical ==
    /\ scan.pc = "prepared"
    /\ scan' = [applyLogical(scan) EXCEPT !.pc = "logical"]
    /\ UNCHANGED othersScanTable

ApplyFinal ==
    /\ scan.pc = "logical"
    /\ scan' = [applyFinal(scan) EXCEPT !.pc = "final"]
    /\ UNCHANGED othersScanTable

NextScanTable ==
    \/ ApplyLogical
    \/ ApplyFinal

SpecScanTable == InitScanTable /\ [][NextScanTable]_vars

(***************************************************************************)
(* Claims about qana::ScanTablePlugin.                                     *)
(***************************************************************************)

Entries(list) == {list[k] : k \in 1..Len(list)}

\* C25: after applyFinal, ctx.scanTables is empty whenever chunkCount is
\* below the threshold; whenever chunkCount is at or above the threshold and
\* the SELECT list refers to a column it holds exactly the partitioned tables
\* of the FROM list, each once.
ScanTablesArePartitionedTables ==
    scan.pc = "final" =>
        IF scan.context.chunkCount < scanThreshold
        THEN scan.context.scanTables = <<>>
        ELSE scan.stmt.selectColumnRefs =>
                /\ Entries(scan.context.scanTables)
                      = Entries(scan.stmt.fromList) \cap PartitionedTables
                /\ Cardinality(Entries(scan.context.scanTables))
                      = Len(scan.context.scanTables)


(***************************************************************************)
(* parser::MySqlListener: the adapter stack.                               *)
(*                                                                         *)
(* The listener is driven through its enter and exit functions.  An        *)
(* adapter on the stack is its class and what its children have handed to  *)
(* it so far; the parent of an adapter is the adapter below it, since the  *)
(* push takes the top of the stack as the parent.                          *)
(***************************************************************************)
Productions ==
    {"DmlStatement", "SimpleSelect", "QuerySpecification", "SelectElements",
     "FromClause"}

\* the adapter class that implements the callback handler of a production
ParentCBH(name) ==
    CASE name = "DmlStatement" -> "Root"
      [] name = "SimpleSelect" -> "DmlStatement"
      [] name = "QuerySpecification" -> "SimpleSelect"
      [] name = "SelectElements" -> "QuerySpecification"
      [] name = "FromClause" -> "QuerySpecification"

NewAdapter(type) == [type |-> type, handled |-> {}]

NewMySqlListener ==
    [pc |-> "listening", adapterStack |-> <<NewAdapter("Root")>>,
     error |-> "none", numEvents |-> 0, numUnexpected |-> 0]

top(stack) == stack[Len(stack)]

pop(stack) == SubSeq(stack, 1, Len(stack) - 1)

pushAdapterStack(l, name) ==
    IF top(l.adapterStack).type # ParentCBH(name)
    THEN [l EXCEPT !.pc = "failed", !.error = "adapter_order_error"]
    ELSE [l EXCEPT !.adapterStack = Append(@, NewAdapter(name))]

\* Adapter::onExit of the adapter on top: it hands its result to its parent
onExit(stack) ==
    [stack EXCEPT ![Len(stack) - 1].handled = @ \cup {top(stack).type}]

\* only the branch that logs tells an unexpected adapter from an expected one
popAdapterStack(l, name) ==
    LET adapterPtr == top(l.adapterStack)
        l1 == [l EXCEPT !.adapterStack = pop(onExit(@))]
    IN  IF adapterPtr.type # name
        THEN [l1 EXCEPT !.numUnexpected = @ + 1]
        ELSE l1

InitListener ==
    /\ lsn = NewMySqlListener
    /\ IdleDispatch
    /\ IdleController
    /\ IdleColumnRef
    /\ IdleBoolTerm
    /\ IdleScanTable
    /\ IdleRegistry
    /\ IdleTransaction

\* enter<name>(ctx)
Enter(name) ==
    /\ lsn.pc = "listening"
    /\ lsn.numEvents < MaxEvents
    /\ lsn' = [pushAdapterStack(lsn, name) EXCEPT !.numEvents = @ + 1]
    /\ UNCHANGED othersListener

\* exit<name>(ctx); the root adapter is popped by the destructor only
Exit(name) ==
    /\ lsn.pc = "listening"
    /\ lsn.numEvents < MaxEvents
    /\ Len(lsn.adapterStack) > 1
    /\ lsn' = [popAdapterStack(lsn, name) EXCEPT !.numEvents = @ + 1]
    /\ UNCHANGED othersListener

NextListener ==
    \/ \E name \in Productions : Enter(name)
    \/ \E name \in Productions : Exit(name)

SpecListener == InitListener /\ [][NextListener]_vars

(***************************************************************************)
(* Claims about parser::MySqlListener.                                     *)
(***************************************************************************)

\* C26: when the adapter popped on exiting a production is not of the type
\* expected for that production, the parse fails with an internal error
\* instead of going on.
UnexpectedAdapterFailsParse ==
    lsn.numUnexpected > 0 => lsn.pc = "failed"

(***************************************************************************)
(* replica_core::JobScheduler: the job registry and the mutex _mtx         *)
(*                                                                         *)
(* Threads of the clients call findAll, purge and replicate; threads of    *)
(* the jobs call onFinish.  A thread is at one position of the method it   *)
(* runs: "lock" (at LOCK_GUARD), "insert" / "inserting" (before and inside *)
(* _registry[id] = wrapper), "start" (at job->start()), "erase" /          *)
(* "erasing" (before and inside the look-up and erase of onFinish),        *)
(* "runQueued", "notify".  An access to the std::map takes two steps, so   *)
(* that two accesses can overlap; the outcome of overlapping accesses is   *)
(* undefined, and the registry is then left with any set of jobs.          *)
(***************************************************************************)
Threads == {"t1", "t2", "t3"}

SubmitMethods == {"findAll", "purge", "replicate"}

SubmittedIds == 1..MaxSubmitted

NewRegistry ==
    [ mtx      |-> "free",
      pc       |-> [t \in Threads |-> "idle"],
      method   |-> [t \in Threads |-> "none"],
      job      |-> [t \in Threads |-> 0],
      registry |-> {},
      jobs     |-> [j \in SubmittedIds |-> "none"],
      numJobs  |-> 0,
      raced    |-> FALSE ]

\* the threads inside an access to _registry
Accessing(r) == {t \in Threads : r.pc[t] \in {"inserting", "erasing"}}

\* the methods that begin with LOCK_GUARD
guarded(method) == method \in {"findAll", "replicate"}

\* the registry after thread t's access, which leaves it as access says
\* unless another thread is inside an access of its own
accessed(r, t, access) ==
    IF Accessing(r) = {t}
    THEN {[r EXCEPT !.registry = access]}
    ELSE {[r EXCEPT !.registry = any, !.raced = TRUE] :
              any \in SUBSET SubmittedIds}

\* the end of a block or method: the lock_guard, if any, releases _mtx
unlock(r, t) == IF r.mtx = t THEN [r EXCEPT !.mtx = "free"] ELSE r

InitRegistry ==
    /\ reg = NewRegistry
    /\ IdleDispatch
    /\ IdleController
    /\ IdleColumnRef
    /\ IdleBoolTerm
    /\ IdleScanTable
    /\ IdleListener
    /\ IdleTransaction

\* a client calls findAll, purge or replicate: the job is created
CallSubmit(t, method) ==
    /\ reg.pc[t] = "idle"
    /\ reg.numJobs < MaxSubmitted
    /\ reg' = [reg EXCEPT
                  !.pc[t] = IF guarded(method) THEN "lock" ELSE "insert",
                  !.method[t] = method,
                  !.job[t] = reg.numJobs + 1,
                  !.jobs[reg.numJobs + 1] = "CREATED",
                  !.numJobs = @ + 1]
    /\ UNCHANGED othersRegistry

\* LOCK_GUARD
LockGuard(t) ==
    /\ reg.pc[t] = "lock"
    /\ reg.mtx = "free"
    /\ reg' = [reg EXCEPT
                  !.mtx = t,
                  !.pc[t] = IF reg.method[t] = "onFinish"
                            THEN "erase" ELSE "insert"]
    /\ UNCHANGED othersRegistry

\* _registry[job->id()] = wrapper begins
InsertBegins(t) ==
    /\ reg.pc[t] = "insert"
    /\ reg' = [reg EXCEPT !.pc[t] = "inserting"]
    /\ UNCHANGED othersRegistry

\* _registry[job->id()] = wrapper ends
InsertEnds(t) ==
    /\ reg.pc[t] = "inserting"
    /\ \E r \in accessed(reg, t, reg.registry \cup {reg.job[t]}) :
          reg' = [r EXCEPT !.pc[t] = "start"]
    /\ UNCHANGED othersRegistry

\* job->start() and the return of the method
JobStarts(t) ==
    /\ reg.pc[t] = "start"
    /\ reg' = unlock([reg EXCEPT !.pc[t] = "idle",
                                 !.method[t] = "none",
                                 !.jobs[reg.job[t]] = "IN_PROGRESS"], t)
    /\ UNCHANGED othersRegistry

\* job j finishes and its thread calls onFinish
CallOnFinish(t, j) ==
    /\ reg.pc[t] = "idle"
    /\ reg.jobs[j] = "IN_PROGRESS"
    /\ reg' = [reg EXCEPT !.pc[t] = "lock",
                          !.method[t] = "onFinish",
                          !.job[t] = j,
                          !.jobs[j] = "FINISHED"]
    /\ UNCHANGED othersRegistry

\* wrapper = _registry[job->id()] begins
EraseBegins(t) ==
    /\ reg.pc[t] = "erase"
    /\ reg' = [reg EXCEPT !.pc[t] = "erasing"]
    /\ UNCHANGED othersRegistry

\* _registry.erase(job->id()) ends, and the block with it
EraseEnds(t) ==
    /\ reg.pc[t] = "erasing"
    /\ \E r \in accessed(reg, t, reg.registry \ {reg.job[t]}) :
          reg' = unlock([r EXCEPT !.pc[t] = "runQueued"], t)
    /\ UNCHANGED othersRegistry

\* runQueued(): takes _mtx and does nothing
RunQueued(t) ==
    /\ reg.pc[t] = "runQueued"
    /\ reg.mtx = "free"
    /\ reg' = [reg EXCEPT !.pc[t] = "notify"]
    /\ UNCHANGED othersRegistry

\* wrapper->notify() and the return of onFinish
Notify(t) ==
    /\ reg.pc[t] = "notify"
    /\ reg' = [reg EXCEPT !.pc[t] = "idle", !.method[t] = "none"]
    /\ UNCHANGED othersRegistry

NextRegistry ==
    \/ \E t \in Threads, method \in SubmitMethods : CallSubmit(t, method)
    \/ \E t \in Threads : LockGuard(t)
    \/ \E t \in Threads : InsertBegins(t)
    \/ \E t \in Threads : InsertEnds(t)
    \/ \E t \in Threads : JobStarts(t)
    \/ \E t \in Threads, j \in SubmittedIds : CallOnFinish(t, j)
    \/ \E t \in Threads : EraseBegins(t)
    \/ \E t \in Threads : EraseEnds(t)
    \/ \E t \in Threads : RunQueued(t)
    \/ \E t \in Threads : Notify(t)

SpecRegistry == InitRegistry /\ [][NextRegistry]_vars

(***************************************************************************)
(* Claims about the job registry.                                          *)
(***************************************************************************)
\* C32: every read or modification of the job registry (the registration in
\* findAll, purge and replicate, the look-up and removal in onFinish) is made
\* by a thread that holds the mutex of the scheduler.
RegistryAccessHoldsMutex ==
    \A t \in Accessing(reg) : reg.mtx = t

(***************************************************************************)
(* replica::DatabaseServicesMySQL: the transactions of the write           *)
(* operations on connection _conn.                                         *)
(*                                                                         *)
(* tx is the connection with the tables behind it: rows are the committed  *)
(* rows, pending the rows inserted by the open transaction.  One call of   *)
(* an operation is one step; failAt, errno and reconnect tell which of the *)
(* statements of the call fails at the server, with which error, and       *)
(* whether the connection can be made again.  exc is the exception that    *)
(* left the operation, beginFailed whether begin() found a transaction     *)
(* active.                                                                 *)
(***************************************************************************)
ControllerRow == "controller"

JobRows == {"job-1", "job-2"}

\* the errors of the server other than a duplicate key
ServerErrnos == {"CR_SERVER_GONE_ERROR", "ER_PARSE_ERROR"}

\* database::mysql::Error and the classes derived from it
MySqlErrors ==
    {"Error", "DuplicateKeyError", "ConnectError", "Reconnected",
     "ConnectTimeout"}

NewDatabaseServices(connectTimeoutSec) ==
    [ pc                |-> "idle",
      connectTimeoutSec |-> connectTimeoutSec,
      inTransaction     |-> FALSE,
      rows              |-> {},
      pending           |-> {},
      n                 |-> 0,
      failAt            |-> 0,
      errno             |-> "none",
      reconnect         |-> FALSE,
      op                |-> "none",
      exc               |-> "none",
      beginFailed       |-> FALSE ]

raise(c, ex) == [c EXCEPT !.exc = ex]

\* a handler has caught the exception
handled(c) == [c EXCEPT !.exc = "none"]

\* the rest of a block runs if nothing has been thrown
Then(c, Rest(_)) == IF c.exc # "none" THEN c ELSE Rest(c)

\* Connection::connectOnce, reached from processLastError through connect():
\* the context of the previous connection is dropped
connectOnce(c) == [c EXCEPT !.inTransaction = FALSE, !.pending = {}]

\* Connection::execute(query): mysql_real_query and, when it fails,
\* processLastError; duplicate tells whether the statement inserts a row
\* whose key is in the table
executeQuery(c, duplicate) ==
    LET c1 == [c EXCEPT !.n = @ + 1]
    IN  IF c1.n = c1.failAt
        THEN LET ex == processLastError(c1, c1.errno, c1.reconnect)
             IN  raise(IF ex \in {"Reconnected", "ConnectTimeout"}
                       THEN connectOnce(c1) ELSE c1, ex)
        ELSE IF duplicate THEN raise(c1, "DuplicateKeyError")
        ELSE c1

\* Connection::begin
begin(c) ==
    IF c.inTransaction
    THEN raise([c EXCEPT !.beginFailed = TRUE], "logic_error")
    ELSE Then(executeQuery(c, FALSE),
              LAMBDA r : [r EXCEPT !.inTransaction = TRUE])

\* Connection::commit
commit(c) ==
    IF ~c.inTransaction
    THEN raise(c, "logic_error")
    ELSE Then(executeQuery(c, FALSE),
              LAMBDA r : [r EXCEPT !.inTransaction = FALSE,
                                   !.rows = @ \cup r.pending,
                                   !.pending = {}])

\* Connection::rollback
rollback(c) ==
    IF ~c.inTransaction
    THEN raise(c, "logic_error")
    ELSE Then(executeQuery(c, FALSE),
              LAMBDA r : [r EXCEPT !.inTransaction = FALSE,
                                   !.pending = {}])

executeInsertQuery(c, key) ==
    Then(executeQuery(c, key \in c.rows \cup c.pending),
         LAMBDA r : [r EXCEPT !.pending = @ \cup {key}])

executeSimpleUpdateQuery(c, key) == executeQuery(c, FALSE)

\* catch (database::mysql::Error const& ex) {
\*     if (_conn->inTransaction()) _conn->rollback();
\*     throw std::runtime_error(...); }
catchError(c) ==
    IF c.exc \notin MySqlErrors THEN c
    ELSE Then(IF c.inTransaction THEN rollback(handled(c)) ELSE handled(c),
              LAMBDA r : raise(r, "runtime_error"))

\* DatabaseServicesMySQL::saveState(ControllerIdentity const&, uint64_t)
saveStateController(c) ==
    LET body == Then(Then(begin(c),
                          LAMBDA r : executeInsertQuery(r, ControllerRow)),
                     commit)
    IN  IF body.exc = "DuplicateKeyError"
        THEN Then(rollback(handled(body)),
                  LAMBDA r : raise(r, "logic_error"))
        ELSE body

\* DatabaseServicesMySQL::saveState(Job const&, Job::Options const&)
saveStateJob(c, job) ==
    LET body == Then(Then(begin(c),
                          LAMBDA r : executeInsertQuery(r, job)),
                     commit)
    IN  IF body.exc = "DuplicateKeyError"
        THEN catchError(
                 Then(Then(Then(rollback(handled(body)), begin),
                           LAMBDA r : executeSimpleUpdateQuery(r, job)),
                      commit))
        ELSE body

\* DatabaseServicesMySQL::updateHeartbeatTime(Job const&)
updateHeartbeatTime(c, job) ==
    catchError(Then(Then(begin(c),
                         LAMBDA r : executeSimpleUpdateQuery(r, job)),
                    commit))

\* the connection as a call finds it
called(c, op, failAt, errno, reconnect) ==
    [c EXCEPT !.n = 0, !.failAt = failAt, !.errno = errno,
              !.reconnect = reconnect, !.op = op, !.exc = "none"]

InitTransaction ==
    /\ \E connectTimeoutSec \in {0, 1} :
          tx = NewDatabaseServices(connectTimeoutSec)
    /\ IdleDispatch
    /\ IdleController
    /\ IdleColumnRef
    /\ IdleBoolTerm
    /\ IdleScanTable
    /\ IdleListener
    /\ IdleRegistry

SaveStateController ==
    \E failAt \in 0..MaxStatements, errno \in ServerErrnos,
       reconnect \in BOOLEAN :
        /\ tx' = saveStateController(
                     called(tx, "saveStateController", failAt, errno, reconnect))
        /\ UNCHANGED othersTransaction

SaveStateJob(job) ==
    \E failAt \in 0..MaxStatements, errno \in ServerErrnos,
       reconnect \in BOOLEAN :
        /\ tx' = saveStateJob(
                     called(tx, "saveStateJob", failAt, errno, reconnect), job)
        /\ UNCHANGED othersTransaction

UpdateHeartbeatTime(job) ==
    \E failAt \in 0..MaxStatements, errno \in ServerErrnos,
       reconnect \in BOOLEAN :
        /\ tx' = updateHeartbeatTime(
                     called(tx, "updateHeartbeatTime", failAt, errno, reconnect),
                     job)
        /\ UNCHANGED othersTransaction

NextTransaction ==
    \/ SaveStateController
    \/ \E job \in JobRows : SaveStateJob(job)
    \/ \E job \in JobRows : UpdateHeartbeatTime(job)

SpecTransaction == InitTransaction /\ [][NextTransaction]_vars

(***************************************************************************)
(* Claims about the transactions of DatabaseServicesMySQL.                 *)
(***************************************************************************)
\* C40: when a write operation has returned or thrown, its connection is not
\* inside an open transaction, and the begin of an operation never fails
\* because a transaction is still active.
NoTransactionLeftOpen ==
    /\ ~tx.inTransaction
    /\ ~tx.beginFailed

====
